---- MODULE Spec2Model ----
(***************************************************************************)
(* A model of scrapelex (src/scraper/scrapelex.py): the EUR-lex crawler's  *)
(* document fetch with its retry/cooldown policy, the search-page walker   *)
(* with checkpointing, flushing and resume, and the page extractor.        *)
(*                                                                         *)
(* Strings the code splits, slices or searches are sequences of tokens     *)
(* (one token stands for one character or for one unsplittable piece of    *)
(* text); strings the code only passes around are TLA+ strings.            *)
(***************************************************************************)
EXTENDS Integers, Sequences, FiniteSets, TLC

(***************************************************************************)
(* Bounds of the model.                                                    *)
(***************************************************************************)
\* max_retries is drawn from 0..MaxRetriesBound
MaxRetriesBound == 5
\* number of __get_full_document calls of one behaviour of SpecFetch
MaxCalls == 2
\* the largest max_retries of a crawl
MaxCrawlRetries == 3
\* answers of the server, in one behaviour of Spec, that are not the good one
MaxFaults == 2
\* the same for one behaviour of SpecResume
MaxResumeFaults == 0
\* invocations of one behaviour of SpecResume
MaxInvocations == 2
\* nodes of one container of SpecContainer
MaxChildren == 3
\* worker processes of one pool of SpecBatch
MaxWorkers == 2
\* the same as MaxFaults for one behaviour of SpecCooldown
MaxCooldownFaults == 6

(***************************************************************************)
(* Program constants.                                                      *)
(***************************************************************************)
\* "if count > 2": failed attempts 1 and 2 do not escalate
QuickAttempts == 2
\* "if self.cooldowns > 5": the session is reset past this many escalations
CooldownLimit == 5

(***************************************************************************)
(* Python string operations on token sequences.                            *)
(***************************************************************************)
RECURSIVE IndexFrom(_, _, _)
\* the first index >= i at which token tok stands in s, 0 when there is none
IndexFrom(s, tok, i) ==
    IF i > Len(s) THEN 0
    ELSE IF s[i] = tok THEN i
    ELSE IndexFrom(s, tok, i + 1)

\* "tok in s"
Contains(s, tok) == IndexFrom(s, tok, 1) # 0

\* s.split(tok)[0]
SplitHead(s, tok) ==
    LET i == IndexFrom(s, tok, 1)
    IN  IF i = 0 THEN s ELSE SubSeq(s, 1, i - 1)

\* s.split(tok)[1]: the piece between the first and the second tok.
\* Only used where tok is in s (an IndexError otherwise).
SplitSecond(s, tok) ==
    LET i == IndexFrom(s, tok, 1)
        j == IndexFrom(s, tok, i + 1)
    IN  IF j = 0 THEN SubSeq(s, i + 1, Len(s)) ELSE SubSeq(s, i + 1, j - 1)

\* s.split(tok, maxsplit=1)[1]: everything after the first tok
SplitRest(s, tok) ==
    LET i == IndexFrom(s, tok, 1)
    IN  SubSeq(s, i + 1, Len(s))

\* s.replace(old, new) for single tokens
Replace(s, old, new) == [i \in DOMAIN s |-> IF s[i] = old THEN new ELSE s[i]]

RECURSIVE Remove(_, _)
\* s.replace(tok, "")
Remove(s, tok) ==
    IF s = <<>> THEN <<>>
    ELSE IF Head(s) = tok THEN Remove(Tail(s), tok)
    ELSE <<Head(s)>> \o Remove(Tail(s), tok)

Whitespace == {" ", "\n"}

RECURSIVE LStrip(_)
LStrip(s) ==
    IF s # <<>> /\ Head(s) \in Whitespace THEN LStrip(Tail(s)) ELSE s

RECURSIVE RStrip(_)
RStrip(s) ==
    IF s # <<>> /\ s[Len(s)] \in Whitespace
    THEN RStrip(SubSeq(s, 1, Len(s) - 1)) ELSE s

\* s.strip()
Strip(s) == RStrip(LStrip(s))

RECURSIVE Collapse(_, _)
\* sub(tok + "+", tok, s): a run of tok becomes one tok
Collapse(s, tok) ==
    IF Len(s) < 2 THEN s
    ELSE IF s[1] = tok /\ s[2] = tok THEN Collapse(Tail(s), tok)
    ELSE <<Head(s)>> \o Collapse(Tail(s), tok)

Digits == {"0", "1", "2", "3", "4", "5", "6", "7", "8", "9"}

RECURSIVE SkipDigits(_)
SkipDigits(s) ==
    IF s # <<>> /\ Head(s) \in Digits THEN SkipDigits(Tail(s)) ELSE s

RECURSIVE StripAmendMarks(_)
\* sub("►\D\d+", "", s): the mark, one non-digit, and the digits after it
StripAmendMarks(s) ==
    IF s = <<>> THEN <<>>
    ELSE IF /\ Head(s) = "MARK_R"
            /\ Len(s) >= 3
            /\ s[2] \notin Digits
            /\ s[3] \in Digits
         THEN StripAmendMarks(SkipDigits(SubSeq(s, 3, Len(s))))
    ELSE <<Head(s)>> \o StripAmendMarks(Tail(s))

DigitOf(n) ==
    CASE n = 0 -> "0" [] n = 1 -> "1" [] n = 2 -> "2" [] n = 3 -> "3"
      [] n = 4 -> "4" [] n = 5 -> "5" [] n = 6 -> "6" [] n = 7 -> "7"
      [] n = 8 -> "8" [] n = 9 -> "9"

ValueOf(d) ==
    CASE d = "0" -> 0 [] d = "1" -> 1 [] d = "2" -> 2 [] d = "3" -> 3
      [] d = "4" -> 4 [] d = "5" -> 5 [] d = "6" -> 6 [] d = "7" -> 7
      [] d = "8" -> 8 [] d = "9" -> 9

RECURSIVE ToStr(_)
\* f"{n}" of a natural number: its decimal digits
ToStr(n) == IF n < 10 THEN <<DigitOf(n)>> ELSE ToStr(n \div 10) \o <<DigitOf(n % 10)>>

RECURSIVE ToInt(_)
\* int(s) of a string of decimal digits
ToInt(s) ==
    IF s = <<>> THEN 0
    ELSE 10 * ToInt(SubSeq(s, 1, Len(s) - 1)) + ValueOf(s[Len(s)])

(***************************************************************************)
(* The page extractor, __scrape_page.  A page is a record:                 *)
(*   panel     the links of div#PPClass_Contents > ul ("present" is FALSE  *)
(*             when the div or its ul is missing); an item with a = FALSE  *)
(*             is an li without a link;                                    *)
(*   TexteOnly whether div#TexteOnly exists, txt_te its txt_te element;    *)
(*   doc_ti    whether a p.oj-doc-ti or p.doc-ti exists;                   *)
(*   disclaimer whether a p.disclaimer exists;                             *)
(*   document1 the first div of div#document1 > div.tabContent.            *)
(* An element is [present, children]; a child node is [name, class, parts] *)
(* where parts are the texts the code reads from it: the text of a p, the  *)
(* texts of the p's inside a div, the texts of the rows of a table.        *)
(***************************************************************************)
\* label_mapping.json: leaf code -> mid-level code
label_mappings ==
    (<<"1015">> :> <<"1", "0", "_", "2", "0">>) @@
    (<<"2030">> :> <<"2", "0", "_", "0", "5">>) @@
    (<<"2031">> :> <<"2", "0", "_", "0", "6">>)

LabelTypes == {"TC", "MT", "DO"}

\* __clean_text
CleanText(text) ==
    Replace(Replace(Replace(text, "NBSP", " "), "APOS_R", "'"), "APOS_ACUTE", "'")

\* the classifier codes of the classification panel, in page order
PanelCodes(page_html) ==
    IF ~page_html.panel.present THEN <<>>
    ELSE LET items == page_html.panel.items
             Keep(i) == items[i].a /\ Contains(items[i].href, "DC_CODED=")
             Code(i) == Strip(SplitHead(SplitSecond(items[i].href, "DC_CODED="), "&"))
             F[i \in 0..Len(items)] ==
                 IF i = 0 THEN <<>>
                 ELSE IF Keep(i) THEN Append(F[i - 1], Code(i)) ELSE F[i - 1]
         IN  F[Len(items)]

SeqRange(s) == {s[i] : i \in DOMAIN s}

\* a variant of MapLabelsWith that keeps the whole code for the domain
DomainKeepsWholeCode(mappings, codes, label_types) ==
    LET tc == IF "TC" \in SeqRange(label_types) THEN SeqRange(codes) ELSE {}
        mapped == {c \in SeqRange(codes) : c \in DOMAIN mappings}
        mt == IF "MT" \in SeqRange(label_types)
              THEN {mappings[c] \o <<"_mt">> : c \in mapped} ELSE {}
        do == IF "DO" \in SeqRange(label_types)
              THEN {mappings[c] \o <<"_do">> : c \in mapped}
              ELSE {}
    IN  tc \cup mt \cup do

\* the taxonomy roll-up over a table of mappings: the union of the requested
\* granularities
MapLabelsWith(mappings, codes, label_types) ==
    LET tc == IF "TC" \in SeqRange(label_types) THEN SeqRange(codes) ELSE {}
        mapped == {c \in SeqRange(codes) : c \in DOMAIN mappings}
        mt == IF "MT" \in SeqRange(label_types)
              THEN {mappings[c] \o <<"_mt">> : c \in mapped} ELSE {}
        do == IF "DO" \in SeqRange(label_types)
              THEN {SubSeq(mappings[c], 1, 2) \o <<"_do">> : c \in mapped}
              ELSE {}
    IN  tc \cup mt \cup do

\* the roll-up with self.label_mappings
MapLabels(codes, label_types) == MapLabelsWith(label_mappings, codes, label_types)

AbsentElement == [present |-> FALSE, children |-> <<>>]

\* a variant of TextElement that probes the standard marker first
StandardBeforePlain(page_html) ==
    IF page_html.doc_ti
    THEN [element |-> page_html.document1, consolidated |-> FALSE,
          error |-> ~page_html.document1.present]
    ELSE IF page_html.TexteOnly
    THEN [element |-> page_html.txt_te, consolidated |-> FALSE, error |-> FALSE]
    ELSE IF page_html.disclaimer
    THEN [element |-> page_html.document1, consolidated |-> TRUE,
          error |-> ~page_html.document1.present]
    ELSE [element |-> AbsentElement, consolidated |-> FALSE, error |-> FALSE]

\* the layout dispatch: which element holds the text, and whether the
\* consolidated filter applies; error is the AttributeError of a marker
\* without its container
TextElement(page_html) ==
    IF page_html.TexteOnly
    THEN [element |-> page_html.txt_te, consolidated |-> FALSE, error |-> FALSE]
    ELSE IF page_html.doc_ti
    THEN [element |-> page_html.document1, consolidated |-> FALSE,
          error |-> ~page_html.document1.present]
    ELSE IF page_html.disclaimer
    THEN [element |-> page_html.document1, consolidated |-> TRUE,
          error |-> ~page_html.document1.present]
    ELSE [element |-> AbsentElement, consolidated |-> FALSE, error |-> FALSE]

RECURSIVE JoinLines(_)
\* every text of parts, cleaned and followed by a line break
JoinLines(parts) ==
    IF parts = <<>> THEN <<>>
    ELSE CleanText(Head(parts)) \o <<"\n">> \o JoinLines(Tail(parts))

SuppressedClasses == {"reference", "disclaimer", "hd-modifiers", "arrow"}
NoteClasses == {"footnote", "modref"}

RECURSIVE AssembleText(_, _, _, _)
\* the loop over the children of the text element
AssembleText(children, consolidated, skip, full_text) ==
    IF children = <<>> THEN full_text
    ELSE
      LET child == Head(children)
          rest == Tail(children)
      IN  CASE child.name = "p" ->
                 IF consolidated /\ child.class \cap SuppressedClasses # {}
                 THEN AssembleText(rest, consolidated, skip, full_text)
                 ELSE LET skip2 == IF consolidated /\ "title-doc-first" \in child.class
                                   THEN FALSE ELSE skip
                      IN  IF child.class \cap NoteClasses # {}
                          THEN AssembleText(rest, consolidated, skip2, full_text)
                          ELSE AssembleText(rest, consolidated, skip2,
                                            full_text \o JoinLines(child.parts))
            [] child.name \in {"div", "table"} ->
                 IF consolidated /\ skip
                 THEN AssembleText(rest, consolidated, skip, full_text)
                 ELSE AssembleText(rest, consolidated, skip,
                                   full_text \o JoinLines(child.parts))
            [] child.name = "hr" ->
                 IF consolidated /\ skip
                 THEN AssembleText(rest, consolidated, skip, full_text)
                 ELSE AssembleText(rest, consolidated, skip, full_text \o <<"[SEP]">>)
            [] OTHER -> AssembleText(rest, consolidated, skip, full_text)

\* the post-processing of the assembled text
PostProcess(full_text) ==
    LET t1 == Remove(full_text, "MARK_L")
        t2 == IF Len(t1) > 0 /\ Contains(t1, "[SEP]")
              THEN Remove(SplitRest(t1, "[SEP]"), "[SEP]") ELSE t1
        t3 == StripAmendMarks(t2)
        t4 == Strip(Collapse(t3, " "))
    IN  Strip(Collapse(t4, "\n"))

\* label_types.split(","): the label types between the commas
SplitLabelTypes(label_types) == SelectSeq(label_types, LAMBDA t : t # ",")

\* __scrape_page(page_html, label_types)
ScrapePage(page_html, label_types) ==
    LET types == SplitLabelTypes(label_types)
        te == TextElement(page_html)
    IN  IF \E i \in DOMAIN types : types[i] \notin LabelTypes
        THEN [error |-> "ValueError", eurovoc_classifiers |-> {}, full_text |-> <<>>]
        ELSE IF te.error
        THEN [error |-> "AttributeError", eurovoc_classifiers |-> {}, full_text |-> <<>>]
        ELSE [error |-> "none",
              eurovoc_classifiers |-> MapLabels(PanelCodes(page_html), types),
              full_text |-> IF te.element.present
                            THEN PostProcess(AssembleText(te.element.children,
                                                          te.consolidated, TRUE, <<>>))
                            ELSE <<>>]

(***************************************************************************)
(* The remote site: the documents it serves.                               *)
(***************************************************************************)
\* what BeautifulSoup finds in the empty string
EmptyHtml ==
    [blank |-> TRUE,
     panel |-> [present |-> FALSE, items |-> <<>>],
     TexteOnly |-> FALSE, txt_te |-> AbsentElement,
     doc_ti |-> FALSE, disclaimer |-> FALSE,
     document1 |-> AbsentElement]

Link(code) == [a |-> TRUE, href |-> <<"./../../../search.html?", "DC_CODED=", code, "&", "lang=it">>]
P(class, text) == [name |-> "p", class |-> class, parts |-> <<text>>]
Hr == [name |-> "hr", class |-> {}, parts |-> <<>>]

\* a standard-layout page with one classifier and a body after the separator
StandardPage(code, word) ==
    [EmptyHtml EXCEPT
       !.blank = FALSE,
       !.panel = [present |-> TRUE, items |-> <<Link(code)>>],
       !.doc_ti = TRUE,
       !.document1 = [present |-> TRUE,
                      children |-> <<P({"doc-ti"}, <<"title">>), Hr,
                                     P({}, <<word, "NBSP", "text">>)>>]]

\* the "name" attribute of a search result's link: the document's address
\* with the language left open
DocLink(d) == <<"legal-content/", "AUTO", "/?uri=", "CELEX", ":", d>>

\* self.lang.upper() + "/ALL", for lang = "it"
LangAll == "IT/ALL"

\* doc_info["link"].replace("AUTO", f"{self.lang.upper()}/ALL")
DocEndpoint(link) == Replace(link, "AUTO", LangAll)

\* the page the site serves at a document endpoint
WebPage(endpoint) ==
    LET d == endpoint[Len(endpoint)]
    IN  CASE d = "D1" -> StandardPage("1015", "one")
          [] d = "D2" -> StandardPage("2030", "two")
          [] d = "D3" -> StandardPage("2031", "three")
          [] OTHER -> StandardPage("9999", "four")

\* the documents of the site
DocIds == {"D1", "D2", "D3", "D4", "D9"}

\* the values of the label_types option
LabelTypeChoices == {<<"TC">>, <<"TC", ",", "MT">>, <<"TC", ",", "XX">>}

\* __scrape_page over the pages the site serves, tabulated
Scraped ==
    [page_html \in {WebPage(DocEndpoint(DocLink(d))) : d \in DocIds} \cup {EmptyHtml},
     label_types \in LabelTypeChoices |-> ScrapePage(page_html, label_types)] @@ <<>>

\* one entry of a search page: the title link's href and the "name" link
Result(d, linkable) ==
    [linkable |-> linkable,
     href |-> <<"./legal-content/IT/TXT/?", "uri=", "CELEX", ":", d, "&", "qid=1">>,
     title |-> <<"Title", "NBSP", d>>,
     name |-> DocLink(d)]

\* the partition keys of the two enumerations; "?" is the year list's last key
Years == << <<"2001">>, <<"?">> >>
Categories == << <<"REG">>, <<"DIR">> >>

\* the result pages the site holds for a key, as the key stands in the url
SitePages(term) ==
    CASE term = <<"2001">> ->
            << <<Result("D1", TRUE), Result("D2", TRUE)>>,
               <<Result("D2", TRUE), Result("D3", TRUE)>> >>
      [] term = <<"FV_OTHER">> -> << <<Result("D4", TRUE), Result("D9", FALSE)>> >>
      [] term = <<"REG">> -> << <<Result("D1", TRUE)>>, <<Result("D3", TRUE)>> >>
      [] term = <<"DIR">> -> << <<Result("D4", TRUE)>> >>
      [] OTHER -> << <<>> >>

NumPages(term) == Len(SitePages(term))

\* what the parser finds in the search page served for (term, page): the
\* results, the "next page" link and the href of the "last page" link.  nav
\* says which of the two links the page carries: "full" is the page as it
\* should be, "no_next" lacks the next link, "none" lacks both.
Soup(term, page, nav) ==
    LET more == page < NumPages(term)
    IN  [results |-> IF page \in 1..NumPages(term) THEN SitePages(term)[page] ELSE <<>>,
         has_next |-> more /\ nav = "full",
         last_href |-> IF more /\ nav # "none"
                       THEN <<"./search.html?", "&qid=", "QID", "&page=">>
                            \o ToStr(NumPages(term))
                       ELSE <<>>]

NoSoup == [results |-> <<>>, has_next |-> FALSE, last_href |-> <<>>]

(***************************************************************************)
(* State.                                                                  *)
(***************************************************************************)
VARIABLES
    r,           \* self.r: the session handle
    cooldowns,   \* self.cooldowns
    errors,      \* errors.txt of each directory: the lines appended
    not_found,   \* not_found.txt of each directory: the lines appended
    last_sleep,  \* the seconds of the most recent sleep()
    exception,   \* the exception that ended the running invocation
    fpc,         \* where __get_full_document stands
    call,        \* the frame of __get_full_document
    ncalls,      \* calls made so far (SpecFetch)
    pc,          \* where the crawl stands
    inv,         \* the arguments of the running invocation
    w,           \* the frame of __get_documents_search
    documents,   \* its documents dictionary
    docsHTML,    \* the document artifacts on disk: <<dirterm, doc_id>>
    searchHTML,  \* the search page snapshots on disk: <<dirterm, page>>
    checkpoint,  \* checkpoint.json
    json_gz,     \* the flushed records: dirterm -> record
    faults,      \* answers other than the good one the server may still give
    ninv,        \* invocations so far
    seen,        \* history: the doc_ids parsed from the pages of the term walked
    cp_writes,   \* history: the checkpoint writes made for the stub at hand
    first_page,  \* history: per term of the list, the first page requested
    seed,        \* history: the resume cursor the invocation was seeded with
    killed_at,   \* history: where the invocation before was terminated
    processed    \* history: the stubs <<term, doc_id>> skipped or fetched so far

fetchVars == <<r, cooldowns, errors, not_found, last_sleep, exception, fpc, call>>
diskVars == <<docsHTML, searchHTML, checkpoint, json_gz>>
histVars == <<seen, cp_writes, first_page, seed, killed_at, processed>>
crawlVars == <<pc, inv, w, documents, diskVars, faults, ninv, histVars>>
vars == <<fetchVars, ncalls, crawlVars>>

Directories == {"./", "DATA"}

\* requests.Session()
NewSession == [kind |-> "Session", status_code |-> "none", cookies |-> FALSE]
\* the Response requests.get returns
Response(status) == [kind |-> "Response", status_code |-> status, cookies |-> FALSE]

\* what the server may answer to one GET; "exception" is a connection error
\* or a timeout
Answers == {"exception", "200", "404", "504", "500"}

NoCall ==
    [endpoint |-> <<>>, max_retries |-> 0, log_errors |-> FALSE, directory |-> "./",
     scrape |-> FALSE, label_types |-> <<>>, keep_trying |-> FALSE, count |-> 0,
     eurovoc_classifiers |-> {}, full_text |-> <<>>, page_html |-> EmptyHtml]

InitFetch ==
    /\ r = NewSession
    /\ cooldowns = 0
    /\ errors = [d \in Directories |-> <<>>]
    /\ not_found = [d \in Directories |-> <<>>]
    /\ last_sleep = 0
    /\ exception = "none"
    /\ fpc = "idle"
    /\ call = NoCall

(***************************************************************************)
(* __get_full_document                                                     *)
(***************************************************************************)
\* "while keep_trying and count < max_retries"
LoopCondition(keep_trying, count, max_retries) == keep_trying /\ count < max_retries

AfterIteration(c) ==
    IF LoopCondition(c.keep_trying, c.count, c.max_retries) THEN "loop" ELSE "after"

\* a variant of Escalates that escalates from the first failed attempt
EscalatesAtOnce(count) == count > 0

\* "if count > 2"
Escalates(count) == count > QuickAttempts

\* "if self.cooldowns > 5"
NeedsReset(n) == n > CooldownLimit

\* the entry of the function: its locals, up to the first test of the loop
EnterFetch(endpoint, max_retries, log_errors, directory, scrape, label_types) ==
    /\ call' = [endpoint |-> endpoint, max_retries |-> max_retries,
                log_errors |-> log_errors, directory |-> directory,
                scrape |-> scrape, label_types |-> label_types,
                keep_trying |-> TRUE, count |-> 0,
                eurovoc_classifiers |-> {}, full_text |-> <<>>,
                page_html |-> EmptyHtml]
    /\ fpc' = IF LoopCondition(TRUE, 0, max_retries) THEN "loop" ELSE "after"

\* a failed attempt: the count, the cooldown counter, the sleep or the reset;
\* resp is self.r after the request, quick the sleep of an attempt that does
\* not escalate
FailedAttempt(resp, quick) ==
    LET c == [call EXCEPT !.count = call.count + 1]
    IN  /\ call' = c
        /\ IF Escalates(c.count)
           THEN /\ cooldowns' = cooldowns + 1
                /\ IF NeedsReset(cooldowns + 1)
                   THEN \* __reset_session: a new session, then __set_cookies
                        /\ r' = NewSession
                        /\ fpc' = "reset"
                        /\ UNCHANGED last_sleep
                   ELSE /\ r' = resp
                        /\ last_sleep' = 60
                        /\ fpc' = AfterIteration(c)
           ELSE /\ r' = resp
                /\ last_sleep' = quick
                /\ fpc' = AfterIteration(c)
                /\ UNCHANGED cooldowns
        /\ UNCHANGED <<errors, not_found, exception>>

\* a variant of IsNotFound that tells no status apart: a 404 is retried
NotFoundRetried(status) == FALSE

\* "if self.r.status_code == 404"
IsNotFound(status) == status = "404"

\* one iteration of the loop, the server answering answer (and body, when
\* the answer is 200)
FetchAttempt(answer, body) ==
    /\ fpc = "loop"
    /\ CASE answer = "exception" -> FailedAttempt(r, 1)
         [] answer = "200" ->
              LET scraped == Scraped[body, call.label_types]
                  c == [call EXCEPT !.keep_trying = FALSE, !.page_html = body]
              IN  /\ r' = Response("200")
                  /\ IF call.scrape /\ scraped.error # "none"
                     THEN /\ call' = c
                          /\ fpc' = "raised"
                          /\ exception' = scraped.error
                     ELSE /\ call' = IF call.scrape
                                     THEN [c EXCEPT
                                             !.eurovoc_classifiers = scraped.eurovoc_classifiers,
                                             !.full_text = scraped.full_text]
                                     ELSE c
                          /\ fpc' = "after"
                          /\ UNCHANGED exception
                  /\ UNCHANGED <<cooldowns, errors, not_found, last_sleep>>
         [] IsNotFound(answer) ->
              /\ r' = Response(answer)
              /\ not_found' = [not_found EXCEPT
                                 ![call.directory] = Append(@, call.endpoint)]
              /\ fpc' = "after"
              /\ UNCHANGED <<cooldowns, errors, last_sleep, exception, call>>
         [] OTHER -> FailedAttempt(Response(answer), call.count + 2)

\* __set_cookies inside __reset_session: the bootstrap request is repeated
\* while it raises, a non-ok answer ends the invocation
SetCookiesInFetch(answer) ==
    /\ fpc = "reset"
    /\ IF r.kind # "Session" \/ answer = "exception"
       THEN /\ last_sleep' = 10
            /\ UNCHANGED <<r, cooldowns, errors, not_found, exception, fpc, call>>
       ELSE IF answer = "200"
       THEN /\ r' = [r EXCEPT !.cookies = TRUE]
            /\ cooldowns' = 0
            /\ last_sleep' = 60
            /\ fpc' = AfterIteration(call)
            /\ UNCHANGED <<errors, not_found, exception, call>>
       ELSE /\ exception' = "TypeError"
            /\ fpc' = "raised"
            /\ UNCHANGED <<r, cooldowns, errors, not_found, last_sleep, call>>

\* "if count >= max_retries"
RetriesExhausted(count, max_retries) == count >= max_retries

\* after the loop: the error line, and the return
FetchReturn ==
    /\ fpc = "after"
    /\ errors' = IF RetriesExhausted(call.count, call.max_retries) /\ call.log_errors
                 THEN [errors EXCEPT ![call.directory] = Append(@, call.endpoint)]
                 ELSE errors
    /\ fpc' = "returned"
    /\ UNCHANGED <<r, cooldowns, not_found, last_sleep, exception, call>>

\* the bodies a 200 answer to endpoint may carry
Bodies(endpoint) == {WebPage(endpoint), EmptyHtml}

\* one request of the loop and what the server answers to it
Attempt ==
    /\ fpc = "loop"
    /\ \E answer \in Answers :
          \E body \in (IF answer = "200" THEN Bodies(call.endpoint) ELSE {EmptyHtml}) :
             FetchAttempt(answer, body)

(***************************************************************************)
(* The search urls and the resume cursor.                                  *)
(***************************************************************************)
\* the tokens that begin with "&": where s.split("&") cuts
AmpTokens == {"&", "&DD_YEAR=", "&FM_CODED=", "&qid=", "&page=",
              "&DB_TYPE_OF_ACT=", "&typeOfActStatus=OTHER"}

RECURSIVE SplitHeadAmp(_)
\* s.split("&")[0]
SplitHeadAmp(s) ==
    IF s = <<>> \/ Head(s) \in AmpTokens THEN <<>>
    ELSE <<Head(s)>> \o SplitHeadAmp(Tail(s))

\* a variant of HasParameter that finds every parameter
AnyParameter(s, name) == TRUE

\* "name in s" for a parameter name: a token of s spells it
HasParameter(s, name) == \E i \in DOMAIN s : s[i] = "&" \o name \o "="

\* search_term of the two public entry points
SearchTerm(mode) ==
    IF mode = "year" THEN <<"&DD_YEAR=">>
    ELSE <<"&DB_TYPE_OF_ACT=", "&typeOfActStatus=OTHER", "&FM_CODED=">>

\* the parameter that carries the partition key
ModeParameter(mode) == IF mode = "year" THEN "DD_YEAR" ELSE "FM_CODED"

\* self.base_url_year / self.base_url: the two attributes hold the same url
BaseUrl(mode) == IF mode = "year" THEN "search.html?" ELSE "search.html?"

\* "dirterm = term if term != '?' else 'unknown'"
DirTerm(term) == IF term # <<"?">> THEN term ELSE <<"unknown">>
\* "term = term if term != '?' else 'FV_OTHER'"
UrlTerm(term) == IF term # <<"?">> THEN term ELSE <<"FV_OTHER">>

\* the search endpoint of (term, page); the qid is the time of the request
Endpoint(mode, term, page) ==
    <<BaseUrl(mode)>> \o SearchTerm(mode) \o term \o <<"&qid=", "QID", "&page=">>
    \o ToStr(page)

NoCheckpoint ==
    [exists |-> FALSE, last_search_endpoint |-> <<>>, last_doc_endpoint |-> <<>>]

\* a variant of SaveCheckpointFile that rewrites only the document endpoint
\* of a checkpoint that exists
KeepsSearchEndpoint(search_endpoint, doc_endpoint) ==
    [exists |-> TRUE,
     last_search_endpoint |-> IF checkpoint.exists
                              THEN checkpoint.last_search_endpoint
                              ELSE search_endpoint,
     last_doc_endpoint |-> doc_endpoint]

\* __save_checkpoint: the file is rewritten
SaveCheckpointFile(search_endpoint, doc_endpoint) ==
    [exists |-> TRUE, last_search_endpoint |-> search_endpoint,
     last_doc_endpoint |-> doc_endpoint]

NoResume == [set |-> FALSE, page |-> <<>>, term |-> <<>>]

\* resume_params of a checkpoint written under mode
ResumeParams(cp, mode) ==
    [set |-> TRUE,
     page |-> SplitSecond(cp.last_search_endpoint, "&page="),
     term |-> SplitHeadAmp(SplitSecond(cp.last_search_endpoint,
                                       "&" \o ModeParameter(mode) \o "="))]

(***************************************************************************)
(* __get_documents_info                                                    *)
(***************************************************************************)
\* doc_id of a result: the uri of its href with "/" and ":" replaced
DocId(href) ==
    Replace(Replace(SplitHead(SplitSecond(href, "uri="), "&"), "/", "-"), ":", "-")

RECURSIVE GetDocumentsInfo(_)
\* the stubs of a page in the order of the dictionary: a doc_id listed twice
\* keeps its first place and its last value
GetDocumentsInfo(results) ==
    IF results = <<>> THEN <<>>
    ELSE LET before == GetDocumentsInfo(SubSeq(results, 1, Len(results) - 1))
             result == results[Len(results)]
             stub == [doc_id |-> DocId(result.href),
                      title |-> CleanText(Strip(result.title)),
                      link |-> result.name]
         IN  IF ~result.linkable THEN before
             ELSE IF \E i \in DOMAIN before : before[i].doc_id = stub.doc_id
             THEN [i \in DOMAIN before |->
                     IF before[i].doc_id = stub.doc_id THEN stub ELSE before[i]]
             ELSE Append(before, stub)

(***************************************************************************)
(* The crawl: get_documents_by_year / get_documents_by_category and        *)
(* __get_documents_search.                                                 *)
(***************************************************************************)
\* the options a crawl is invoked with
Options ==
    {[log_errors |-> le, save_html |-> sh, save_data |-> sd, skip_existing |-> se,
      max_retries |-> mr, sleep_time |-> 1, label_types |-> lt] :
        le \in BOOLEAN, sh \in BOOLEAN, sd \in BOOLEAN, se \in BOOLEAN,
        mr \in {0, 1, MaxCrawlRetries},
        lt \in {<<"TC", ",", "MT">>, <<"TC", ",", "XX">>}}

Modes == {"year", "category"}
Terms(mode) == IF mode = "year" THEN Years ELSE Categories

NoInvocation ==
    [mode |-> "year", terms |-> <<>>, resume |-> FALSE, log_errors |-> FALSE,
     save_html |-> FALSE, save_data |-> FALSE, skip_existing |-> FALSE,
     max_retries |-> 0, sleep_time |-> 0, label_types |-> <<>>]

NoFrame ==
    [ti |-> 0, term |-> <<>>, dirterm |-> <<>>, page |-> 1, end |-> FALSE,
     count |-> 0, total_pages |-> 0, endpoint |-> <<>>, soup |-> NoSoup,
     documents_in_page |-> <<>>, i |-> 0, skip_count |-> 0,
     resume_params |-> NoResume, given_up |-> FALSE]

\* the directory of a crawl, f"{directory}/{self.lang}"
DataDir == "DATA"

InitCrawl ==
    /\ pc = "idle"
    /\ inv = NoInvocation
    /\ w = NoFrame
    /\ documents = <<>>
    /\ docsHTML = {}
    /\ searchHTML = {}
    /\ checkpoint = NoCheckpoint
    /\ json_gz = <<>>
    /\ faults = 0
    /\ ninv = 0
    /\ seen = {}
    /\ cp_writes = 0
    /\ first_page = <<>>
    /\ seed = NoResume
    /\ killed_at = "none"
    /\ processed = {}

\* the process is inside an invocation
Running == pc \notin {"idle", "done", "killed"} /\ exception = "none"

\* an answer that is not the good one is taken from the budget of faults
Budget(good) ==
    /\ good \/ faults > 0
    /\ faults' = IF good THEN faults ELSE faults - 1

\* the entry of get_documents_by_year / get_documents_by_category, up to
\* __set_cookies; fresh says whether the scraper is newly constructed
EnterCrawl(mode, resume, o, fresh) ==
    /\ inv' = [mode |-> mode, terms |-> Terms(mode), resume |-> resume,
               log_errors |-> o.log_errors, save_html |-> o.save_html,
               save_data |-> o.save_data, skip_existing |-> o.skip_existing,
               max_retries |-> o.max_retries, sleep_time |-> o.sleep_time,
               label_types |-> o.label_types]
    /\ r' = IF fresh THEN NewSession ELSE r
    /\ cooldowns' = IF fresh THEN 0 ELSE cooldowns
    /\ exception' = "none"
    /\ fpc' = "idle"
    /\ call' = NoCall
    /\ w' = NoFrame
    /\ documents' = <<>>
    /\ pc' = "cookies"
    /\ ninv' = ninv + 1
    /\ seen' = {}
    /\ cp_writes' = 0
    /\ first_page' = [i \in 1..Len(Terms(mode)) |-> 0]
    /\ seed' = NoResume
    /\ killed_at' = IF pc = "killed" THEN killed_at ELSE "none"
    /\ UNCHANGED <<errors, not_found, last_sleep, ncalls, diskVars, processed>>

\* the first invocation of a process, with any options
StartCrawl ==
    /\ pc = "idle"
    /\ faults' = MaxFaults
    /\ \E mode \in Modes, resume \in BOOLEAN, o \in Options :
          EnterCrawl(mode, resume, o, TRUE)

\* the options of the crawls that are interrupted and resumed
ResumeOptions ==
    {o \in Options : /\ o.log_errors /\ o.save_data /\ o.max_retries = 1
                      /\ o.label_types = <<"TC", ",", "MT">>}

\* the first invocation of SpecResume
StartFirst ==
    /\ pc = "idle"
    /\ faults' = MaxResumeFaults
    /\ \E mode \in Modes, o \in ResumeOptions : EnterCrawl(mode, FALSE, o, TRUE)

\* the options of the running invocation
OptionsOf(i) ==
    [log_errors |-> i.log_errors, save_html |-> i.save_html,
     save_data |-> i.save_data, skip_existing |-> i.skip_existing,
     max_retries |-> i.max_retries, sleep_time |-> i.sleep_time,
     label_types |-> i.label_types]

\* a later invocation with the same options, over the same partition list or
\* as a resume under the other enumeration: in a new process, or (when the
\* invocation before has ended by itself) on the same scraper
StartAgain ==
    /\ pc # "idle"
    /\ ~Running
    /\ ninv < MaxInvocations
    /\ UNCHANGED faults
    /\ \E mode \in Modes, resume \in BOOLEAN, fresh \in BOOLEAN :
          /\ pc = "killed" => fresh
          /\ ~resume => mode = inv.mode
          /\ EnterCrawl(mode, resume, OptionsOf(inv), fresh)

\* __set_cookies at the start of an invocation
SetCookiesAtStart(answer) ==
    /\ pc = "cookies"
    /\ exception = "none"
    /\ IF r.kind # "Session" \/ answer = "exception"
       THEN /\ last_sleep' = 10
            /\ UNCHANGED <<r, exception, pc>>
       ELSE IF answer = "200"
       THEN /\ r' = [r EXCEPT !.cookies = TRUE]
            /\ pc' = "plan"
            /\ UNCHANGED <<last_sleep, exception>>
       ELSE /\ exception' = "TypeError"
            /\ UNCHANGED <<r, last_sleep, pc>>
    /\ UNCHANGED <<cooldowns, errors, not_found, fpc, call, ncalls, inv, w,
                   documents, diskVars, ninv, histVars>>

\* the cookie bootstrap, at the start of an invocation or in a session reset
Bootstrap ==
    \E answer \in Answers :
       /\ Budget(answer = "200")
       /\ IF fpc = "reset"
          THEN /\ SetCookiesInFetch(answer)
               /\ UNCHANGED <<ncalls, pc, inv, w, documents, diskVars, ninv,
                              histVars>>
          ELSE SetCookiesAtStart(answer)

\* the resume planning of the entry point, and the entry of
\* __get_documents_search
Plan ==
    /\ pc = "plan"
    /\ IF inv.resume /\ ~checkpoint.exists
       THEN /\ exception' = "Checkpoint unavailable"
            /\ UNCHANGED <<pc, w, seed>>
       ELSE IF inv.resume /\ ~HasParameter(checkpoint.last_search_endpoint,
                                           ModeParameter(inv.mode))
       THEN /\ exception' = "Cannot resume"
            /\ UNCHANGED <<pc, w, seed>>
       ELSE /\ w' = [NoFrame EXCEPT
                       !.resume_params = IF inv.resume
                                         THEN ResumeParams(checkpoint, inv.mode)
                                         ELSE NoResume]
            /\ seed' = w'.resume_params
            /\ pc' = "for"
            /\ UNCHANGED exception
    /\ UNCHANGED <<r, cooldowns, errors, not_found, last_sleep, fpc, call, ncalls,
                   inv, documents, diskVars, faults, ninv, seen, cp_writes,
                   first_page, killed_at, processed>>

\* a variant of CursorPage that leaves the page as it is
IgnoresCursorPage(rp, page) == page

\* a variant of CursorPage that resumes on the page after the cursor
CursorPageAhead(rp, page) == IF rp.set THEN ToInt(rp.page) + 1 ELSE page

\* "if resume_params: page = int(resume_params['page'])"
CursorPage(rp, page) == IF rp.set THEN ToInt(rp.page) ELSE page

\* one pass of "for term in terms", up to the walk of the term
ForTerm ==
    /\ pc = "for"
    /\ IF w.ti = Len(inv.terms)
       THEN /\ pc' = "done"
            /\ UNCHANGED w
       ELSE LET term == inv.terms[w.ti + 1]
                rp == w.resume_params
                page == CursorPage(rp, w.page)
            IN  IF rp.set /\ term # rp.term
                THEN /\ w' = [w EXCEPT !.ti = @ + 1, !.page = page]
                     /\ UNCHANGED pc
                ELSE /\ w' = [w EXCEPT !.ti = @ + 1, !.page = page,
                                       !.resume_params = NoResume,
                                       !.dirterm = DirTerm(term),
                                       !.term = UrlTerm(term),
                                       !.end = FALSE, !.count = 0,
                                       !.total_pages = 0, !.given_up = FALSE]
                     /\ pc' = "request"
    /\ seen' = {}
    /\ UNCHANGED <<fetchVars, ncalls, inv, documents, diskVars, faults, ninv,
                   cp_writes, first_page, seed, killed_at, processed>>

\* a variant of WithTermRecord that empties the record at every page
EmptiedTermRecord(docs, term) == (term :> <<>>) @@ docs

\* "if term not in documents: documents[term] = {}"
WithTermRecord(docs, term) ==
    IF term \in DOMAIN docs THEN docs ELSE (term :> <<>>) @@ docs

\* which of its two page links a search page answered ok carries
Navs == {"full", "no_next", "none"}

\* the partition keys as the search urls spell them
SiteTerms == {UrlTerm(Years[i]) : i \in DOMAIN Years}
             \cup {UrlTerm(Categories[i]) : i \in DOMAIN Categories}

\* __get_documents_info over the search pages the site serves, tabulated
DocumentsInPage ==
    [term \in SiteTerms, page \in UNION {1..NumPages(t) : t \in SiteTerms},
     nav \in Navs |-> GetDocumentsInfo(Soup(term, page, nav).results)] @@ <<>>

\* one request of a search page and what follows from the answer
SearchPage(answer, nav) ==
    LET endpoint == Endpoint(inv.mode, w.term, w.page)
    IN  CASE answer = "exception" ->
               /\ last_sleep' = 60
               /\ w' = [w EXCEPT !.endpoint = endpoint]
               /\ UNCHANGED <<r, errors, pc, documents, searchHTML>>
          [] answer = "200" ->
               LET soup == Soup(w.term, w.page, nav)
               IN  /\ r' = Response("200")
                   /\ w' = [w EXCEPT !.endpoint = endpoint, !.count = 0,
                                     !.soup = soup,
                                     !.documents_in_page = DocumentsInPage[w.term, w.page, nav],
                                     !.i = 0, !.skip_count = 0]
                   /\ searchHTML' = IF inv.save_html
                                    THEN searchHTML \cup {<<w.dirterm, w.page>>}
                                    ELSE searchHTML
                   /\ documents' = WithTermRecord(documents, w.term)
                   /\ pc' = "stubs"
                   /\ UNCHANGED <<errors, last_sleep>>
          [] answer = "504" ->
               /\ r' = Response("504")
               /\ last_sleep' = 60
               /\ w' = [w EXCEPT !.endpoint = endpoint]
               /\ UNCHANGED <<errors, pc, documents, searchHTML>>
          [] OTHER ->
               /\ r' = Response(answer)
               /\ IF w.count < inv.max_retries
                  THEN /\ w' = [w EXCEPT !.endpoint = endpoint, !.count = @ + 1]
                       /\ last_sleep' = w.count + 1
                       /\ UNCHANGED <<errors, pc>>
                  ELSE /\ errors' = IF inv.log_errors
                                    THEN [errors EXCEPT ![DataDir] = Append(@, endpoint)]
                                    ELSE errors
                       /\ w' = [w EXCEPT !.endpoint = endpoint, !.end = TRUE,
                                         !.page = 1, !.given_up = TRUE]
                       /\ pc' = "flush"
                       /\ UNCHANGED last_sleep
               /\ UNCHANGED <<documents, searchHTML>>

SearchAnswers == {"exception", "200", "504", "500"}

SearchRequest ==
    /\ pc = "request"
    /\ \E answer \in SearchAnswers :
          \E nav \in (IF answer = "200" /\ w.page < NumPages(w.term)
                      THEN Navs ELSE {"full"}) :
             /\ Budget(answer = "200" /\ nav = "full")
             /\ SearchPage(answer, nav)
    /\ seen' = seen \cup {w'.documents_in_page[i].doc_id :
                             i \in 1..(IF pc' = "stubs"
                                       THEN Len(w'.documents_in_page) ELSE 0)}
    /\ first_page' = IF first_page[w.ti] = 0
                     THEN [first_page EXCEPT ![w.ti] = w.page]
                     ELSE first_page
    /\ UNCHANGED <<cooldowns, not_found, exception, fpc, call, ncalls, inv,
                   docsHTML, checkpoint, json_gz, ninv, cp_writes, seed,
                   killed_at, processed>>

\* a variant of ShouldSkip that skips nothing
SkipsNothing(skip_existing, artifacts, dirterm, doc_id) == FALSE

\* the skip filter
ShouldSkip(skip_existing, artifacts, dirterm, doc_id) ==
    skip_existing /\ <<dirterm, doc_id>> \in artifacts

\* the placeholders a stub is entered with
Placeholder(stub) ==
    [title |-> stub.title, link |-> stub.link,
     eurovoc_classifiers |-> {}, full_text |-> <<>>]

\* the stub the loop over documents_in_page stands at
Stub == w.documents_in_page[w.i + 1]

\* the head of "for doc_id, doc_info in documents_in_page.items()": the
\* placeholders, then the skip or the entry of __get_full_document
NextStub ==
    /\ pc = "stubs"
    /\ w.i < Len(w.documents_in_page)
    /\ documents' = [documents EXCEPT
                       ![w.term] = (Stub.doc_id :> Placeholder(Stub)) @@ @]
    /\ IF ShouldSkip(inv.skip_existing, docsHTML, w.dirterm, Stub.doc_id)
       THEN /\ w' = [w EXCEPT !.i = @ + 1, !.skip_count = @ + 1]
            /\ processed' = processed \cup {<<w.term, Stub.doc_id>>}
            /\ UNCHANGED <<pc, fpc, call>>
       ELSE /\ EnterFetch(DocEndpoint(Stub.link), inv.max_retries, inv.log_errors,
                          "./", inv.save_data, inv.label_types)
            /\ pc' = "fetching"
            /\ UNCHANGED <<w, processed>>
    /\ cp_writes' = 0
    /\ UNCHANGED <<r, cooldowns, errors, not_found, last_sleep, exception, ncalls,
                   inv, diskVars, faults, ninv, seen, first_page, seed, killed_at>>

\* one request of __get_full_document inside the crawl
DocRequest ==
    /\ pc = "fetching"
    /\ fpc = "loop"
    /\ \E answer \in Answers :
          \E body \in (IF answer = "200" THEN Bodies(call.endpoint) ELSE {EmptyHtml}) :
             /\ Budget(answer = "200" /\ body # EmptyHtml)
             /\ FetchAttempt(answer, body)
    /\ UNCHANGED <<ncalls, pc, inv, w, documents, diskVars, ninv, histVars>>

\* the checkpoint after the return of __get_full_document
SaveCheckpoint ==
    /\ pc = "fetching"
    /\ fpc = "returned"
    /\ checkpoint' = SaveCheckpointFile(w.endpoint, DocEndpoint(Stub.link))
    /\ pc' = "store"
    /\ fpc' = "idle"
    /\ cp_writes' = cp_writes + 1
    /\ processed' = processed \cup {<<w.term, Stub.doc_id>>}
    /\ UNCHANGED <<r, cooldowns, errors, not_found, last_sleep, exception, call,
                   ncalls, inv, w, documents, docsHTML, searchHTML, json_gz,
                   faults, ninv, seen, first_page, seed, killed_at>>

\* a variant of SavesArtifact that stores whatever the fetch returned
SavesAnyBody(save_html, page_html) == save_html

\* "if save_html and page_html != ''"
SavesArtifact(save_html, page_html) == save_html /\ ~page_html.blank

\* the artifact, the record and the pause that end the pass of a stub
StoreDocument ==
    /\ pc = "store"
    /\ docsHTML' = IF SavesArtifact(inv.save_html, call.page_html)
                   THEN docsHTML \cup {<<w.dirterm, Stub.doc_id>>}
                   ELSE docsHTML
    /\ documents' = [documents EXCEPT
                       ![w.term][Stub.doc_id].eurovoc_classifiers =
                           call.eurovoc_classifiers,
                       ![w.term][Stub.doc_id].full_text = call.full_text]
    /\ last_sleep' = inv.sleep_time
    /\ w' = [w EXCEPT !.i = @ + 1]
    /\ pc' = "stubs"
    /\ UNCHANGED <<r, cooldowns, errors, not_found, exception, fpc, call, ncalls,
                   inv, searchHTML, checkpoint, json_gz, faults, ninv, histVars>>

\* a variant of TotalPages that takes the page at hand for the last one
TotalIsThisPage(total_pages, soup, page) == page

\* total_pages once the page is parsed: the page of the "last page" link
TotalPages(total_pages, soup, page) ==
    IF total_pages = 0
    THEN IF soup.last_href # <<>>
         THEN ToInt(SplitSecond(soup.last_href, "&page="))
         ELSE page
    ELSE total_pages

\* a variant of NextPage that stays on the page
StaysOnPage(page) == page

\* a variant of NextPage that leaves a page out
SkipsAPage(page) == page + 2

\* "page += 1"
NextPage(page) == page + 1

\* after the stubs of a page: the next page, the same page again, or the end
EndOfPage ==
    /\ pc = "stubs"
    /\ w.i = Len(w.documents_in_page)
    /\ LET total == TotalPages(w.total_pages, w.soup, w.page)
       IN  IF w.soup.has_next
           THEN /\ w' = [w EXCEPT !.total_pages = total, !.page = NextPage(@)]
                /\ pc' = "request"
                /\ last_sleep' = IF w.skip_count = Len(w.documents_in_page)
                                 THEN inv.sleep_time ELSE last_sleep
           ELSE IF w.page < total \/ total = 0
           THEN /\ w' = [w EXCEPT !.total_pages = total, !.count = @ + 1]
                /\ pc' = "request"
                /\ last_sleep' = 60
           ELSE /\ w' = [w EXCEPT !.total_pages = total, !.end = TRUE, !.page = 1]
                /\ pc' = "flush"
                /\ last_sleep' = IF w.skip_count = Len(w.documents_in_page)
                                 THEN inv.sleep_time ELSE last_sleep
    /\ UNCHANGED <<r, cooldowns, errors, not_found, exception, fpc, call, ncalls,
                   inv, documents, diskVars, faults, ninv, histVars>>

\* after the walk of a term: the summary line, the flush and the drop
Flush ==
    /\ pc = "flush"
    /\ IF w.term \notin DOMAIN documents
       THEN /\ exception' = "KeyError"
            /\ UNCHANGED <<pc, json_gz, documents>>
       ELSE /\ json_gz' = IF inv.save_data
                          THEN (w.dirterm :> documents[w.term]) @@ json_gz
                          ELSE json_gz
            /\ documents' = IF inv.save_data
                            THEN [t \in DOMAIN documents \ {w.term} |-> documents[t]]
                            ELSE documents
            /\ pc' = "for"
            /\ UNCHANGED exception
    /\ UNCHANGED <<r, cooldowns, errors, not_found, last_sleep, fpc, call, ncalls,
                   inv, w, docsHTML, searchHTML, checkpoint, faults, ninv, histVars>>

\* the process is terminated from outside: what it held in memory is gone
Kill ==
    /\ Running
    /\ fpc # "raised"
    /\ pc' = "killed"
    /\ r' = NewSession
    /\ cooldowns' = 0
    /\ fpc' = "idle"
    /\ call' = NoCall
    /\ w' = NoFrame
    /\ documents' = <<>>
    /\ last_sleep' = 0
    /\ seen' = {}
    /\ cp_writes' = 0
    /\ first_page' = <<>>
    /\ seed' = NoResume
    /\ killed_at' = pc
    /\ UNCHANGED <<errors, not_found, exception, ncalls, inv, diskVars, faults, ninv,
                   processed>>

Init == InitFetch /\ InitCrawl /\ ncalls = 0

\* the steps of a running crawl
CrawlStep ==
    \/ Bootstrap
    \/ Plan
    \/ ForTerm
    \/ SearchRequest
    \/ NextStub
    \/ DocRequest
    \/ FetchReturn /\ pc = "fetching" /\ UNCHANGED <<ncalls, crawlVars>>
    \/ SaveCheckpoint
    \/ StoreDocument
    \/ EndOfPage
    \/ Flush

\* one crawl from a newly constructed scraper
Next ==
    \/ StartCrawl
    \/ CrawlStep

Spec == Init /\ [][Next]_vars

\* crawls that may be interrupted and invoked again
NextResume ==
    \/ StartFirst
    \/ StartAgain
    \/ CrawlStep
    \/ Kill

SpecResume == Init /\ [][NextResume]_vars

\* SpecResume with a process that goes on stepping while it can
SpecResumeFair == SpecResume /\ WF_vars(CrawlStep)

\* the options of the crawls whose document fetches escalate
CooldownOptions ==
    {o \in Options : /\ o.log_errors /\ ~o.save_html /\ ~o.save_data
                      /\ ~o.skip_existing /\ o.max_retries = MaxCrawlRetries
                      /\ o.label_types = <<"TC", ",", "MT">>}

\* the invocation of SpecCooldown
StartCooldown ==
    /\ pc = "idle"
    /\ faults' = MaxCooldownFaults
    /\ \E mode \in Modes, o \in CooldownOptions : EnterCrawl(mode, FALSE, o, TRUE)

\* one crawl whose requests may fail often enough to escalate
NextCooldown ==
    \/ StartCooldown
    \/ CrawlStep

SpecCooldown == Init /\ [][NextCooldown]_vars

(***************************************************************************)
(* SpecLocal: scrape_local_core, the extractor applied to a stored page.   *)
(***************************************************************************)
Div(text) == [name |-> "div", class |-> {}, parts |-> <<text>>]

\* the classification panels of the stored pages: none, mapped codes, a code
\* without a mapping, a code listed twice
LocalPanels ==
    {[present |-> FALSE, items |-> <<>>],
     [present |-> TRUE, items |-> <<Link("1015"), Link("2030")>>],
     [present |-> TRUE, items |-> <<Link("9999"), Link("1015")>>],
     [present |-> TRUE, items |-> <<Link("2031"), Link("2031")>>]}

\* the txt_te element of a plain-text page
PlainBody == [present |-> TRUE, children |-> <<P({}, <<"plain", "NBSP", "text">>)>>]

\* the first div of document1: a notice, a preamble, the first title, a body
LaidOutBody ==
    [present |-> TRUE,
     children |-> <<P({"disclaimer"}, <<"notice">>), Div(<<"preamble">>),
                    P({"title-doc-first"}, <<"heading">>), Div(<<"body">>)>>]

\* the stored pages: every combination of the three markers, with and
\* without the element that holds the text
LocalPages ==
    {[blank |-> FALSE, panel |-> pn, TexteOnly |-> to, txt_te |-> te,
      doc_ti |-> dt, disclaimer |-> dc, document1 |-> d1] :
        pn \in LocalPanels, to \in BOOLEAN, te \in {AbsentElement, PlainBody},
        dt \in BOOLEAN, dc \in BOOLEAN, d1 \in {AbsentElement, LaidOutBody}}

\* the values of label_types of a local replay
LocalLabelTypes ==
    {<<a>> : a \in LabelTypes}
    \cup {<<a, ",", b>> : a \in LabelTypes, b \in LabelTypes}
    \cup {<<"TC", ",", "MT", ",", "DO">>, <<"TC", ",", "XX">>}

\* scrape_local_core from the call of __scrape_page on: the page of a file
\* is scraped, and the exception of the extractor is the one of the replay
ScrapeLocalCore ==
    /\ pc = "idle"
    /\ \E page_html \in LocalPages, label_types \in LocalLabelTypes :
          LET scraped == ScrapePage(page_html, label_types)
          IN  /\ call' = [NoCall EXCEPT
                            !.page_html = page_html, !.label_types = label_types,
                            !.scrape = TRUE,
                            !.eurovoc_classifiers = scraped.eurovoc_classifiers,
                            !.full_text = scraped.full_text]
              /\ exception' = scraped.error
    /\ pc' = "local"
    /\ UNCHANGED <<r, cooldowns, errors, not_found, last_sleep, fpc, ncalls, inv, w,
                   documents, diskVars, faults, ninv, histVars>>

SpecLocal == Init /\ [][ScrapeLocalCore]_vars

(***************************************************************************)
(* SpecContainer: the extractor applied to stored pages of the             *)
(* consolidated layout, over the sequences of nodes of the container.      *)
(***************************************************************************)
Block(class, text) == [name |-> "div", class |-> class, parts |-> <<text>>]
Table(class, text) == [name |-> "table", class |-> class, parts |-> <<text>>]

\* the nodes of a container: paragraphs without a class, with the class of
\* the first title, with each of the classes the filter names; divs and
\* tables without a class and with a class the filter names; a separator
ContainerNodes ==
    {P({}, <<"para">>), P({"title-doc-first"}, <<"title">>),
     P({"reference"}, <<"p-reference">>), P({"disclaimer"}, <<"p-disclaimer">>),
     P({"hd-modifiers"}, <<"p-modifiers">>), P({"arrow"}, <<"p-arrow">>),
     P({"footnote"}, <<"p-footnote">>), P({"modref"}, <<"p-modref">>),
     Div(<<"block">>), Block({"reference"}, <<"div-reference">>),
     Table({}, <<"row">>), Table({"hd-modifiers"}, <<"table-modifiers">>),
     Hr}

\* the containers: the sequences of at most MaxChildren nodes
ContainerSequences ==
    UNION {[1..n -> ContainerNodes] : n \in 0..MaxChildren}

\* a page of the consolidated layout: a p.disclaimer and no p.doc-ti, the
\* children in the first div of document1
ConsolidatedPage(children) ==
    [EmptyHtml EXCEPT
       !.blank = FALSE, !.disclaimer = TRUE,
       !.document1 = [present |-> TRUE, children |-> children]]

\* scrape_local_core from the call of __scrape_page on, for a stored page of
\* the consolidated layout
ScrapeConsolidated ==
    /\ pc = "idle"
    /\ \E children \in ContainerSequences :
          LET page_html == ConsolidatedPage(children)
              scraped == ScrapePage(page_html, <<"TC">>)
          IN  /\ call' = [NoCall EXCEPT
                            !.page_html = page_html, !.label_types = <<"TC">>,
                            !.scrape = TRUE,
                            !.eurovoc_classifiers = scraped.eurovoc_classifiers,
                            !.full_text = scraped.full_text]
              /\ exception' = scraped.error
    /\ pc' = "container"
    /\ UNCHANGED <<r, cooldowns, errors, not_found, last_sleep, fpc, ncalls, inv, w,
                   documents, diskVars, faults, ninv, histVars>>

SpecContainer == Init /\ [][ScrapeConsolidated]_vars

(***************************************************************************)
(* SpecBatch: get_documents_local and get_documents_local_multiprocess     *)
(* over the artifacts of a directory.  inv holds the arguments and the     *)
(* hash seed of the process, w the frame of the loop over the years,       *)
(* documents the dictionary of the year at hand.                           *)
(***************************************************************************)
\* the name of the file an artifact is stored in: f"{doc_id}.html" + ".gz"
FileName(doc_id) == doc_id \o <<".html", ".gz">>

\* file.endswith(".gz")
EndsWithGz(file) == file # <<>> /\ file[Len(file)] = ".gz"

\* file.split(".html")[0]
FileStem(file) == SplitHead(file, ".html")

\* "doc_id = doc_id_generator[1]" raises for a name without "-"
ValidFileName(file) == Contains(FileStem(file), "-")

\* doc_id_generator[0] and doc_id_generator[1] of split("-", maxsplit=1)
LocalPrefix(file) == SplitHead(FileStem(file), "-")
LocalDocId(file) == SplitRest(FileStem(file), "-")

\* gzip.open(...).read() raises for a file that is not a gzip archive
Unreadable(file) == "BAD" \in SeqRange(file)

\* the page stored in a file: the page the site served for the document
StoredPage(file) == WebPage(FileStem(file))

\* the text of p#originalTitle, "" for a page without one
OriginalTitle(page_html) ==
    IF "originalTitle" \in DOMAIN page_html
    THEN CleanText(Strip(page_html.originalTitle)) ELSE <<>>

\* the hash seeds a process may run with (PYTHONHASHSEED)
HashSeeds == {"seed_a", "seed_b"}

RECURSIVE Listed(_)
\* the elements of a set, one after the other
Listed(S) ==
    IF S = {} THEN <<>>
    ELSE LET x == CHOOSE y \in S : TRUE IN <<x>> \o Listed(S \ {x})

Reversed(s) == [i \in DOMAIN s |-> s[Len(s) + 1 - i]]

\* list(a_set) of a set of strings: the order of the hash table, which the
\* hash seed of the process decides
ListOfSet(S, hash_seed) ==
    IF hash_seed = "seed_a" THEN Listed(S) ELSE Reversed(Listed(S))

\* scrape_local_core((file, directory, label_types)) in a process of seed
\* hash_seed: the dictionary returned, the file logged, the exception raised
ScrapeLocalFile(file, label_types, hash_seed) ==
    IF Unreadable(file) \/ ~ValidFileName(file)
    THEN [error |-> "none", to_rtn |-> <<>>, logged |-> <<file>>]
    ELSE LET page_html == StoredPage(file)
             scraped == Scraped[page_html, label_types]
             doc_id == LocalDocId(file)
         IN  IF scraped.error # "none"
             THEN [error |-> scraped.error, to_rtn |-> <<>>, logged |-> <<>>]
             ELSE [error |-> "none",
                   to_rtn |->
                      (doc_id :>
                         [title |-> OriginalTitle(page_html),
                          link |-> <<"https://eur-lex.europa.eu/", "legal-content/",
                                     "AUTO", "/?uri=">>
                                   \o LocalPrefix(file) \o <<":">> \o doc_id,
                          eurovoc_classifiers |->
                             ListOfSet(scraped.eurovoc_classifiers, hash_seed),
                          full_text |-> scraped.full_text]),
                   logged |-> <<>>]

\* documents.update(doc)
Update(docs, doc) == doc @@ docs

\* "for doc in scraped: documents.update(doc)"
MergeScraped(docs, doc) == Update(docs, doc)

RECURSIVE MergeAll(_)
MergeAll(scraped) ==
    IF scraped = <<>> THEN <<>>
    ELSE MergeScraped(MergeAll(SubSeq(scraped, 1, Len(scraped) - 1)),
                      scraped[Len(scraped)])

\* listdir(dir_scrape): the files of the directory of a year
ListDir(artifacts, year) ==
    Listed({FileName(a[2]) : a \in {b \in artifacts : b[1] = year}})

\* the years of a local replay
LocalYears == << <<"2001">>, <<"2002">> >>

\* the artifacts a directory may hold: two documents stored under different
\* prefixes, a name without "-", a file that is not an archive
BatchArtifacts ==
    {<<LocalYears[1], d>> : d \in {<<"CELEX", "-", "D1">>, <<"OJ", "-", "D1">>,
                                   <<"CELEXD3">>, <<"CELEX", "-", "BAD">>}}
    \cup {<<LocalYears[2], <<"CELEX", "-", "D4">> >>}

\* path.join(out_dir, str(year) + ".json.gz"), out_dir = .../extracted
ExtractedKey(year) == <<"extracted/">> \o year

NoBatch ==
    [yi |-> 0, year |-> <<>>, inputs |-> <<>>, i |-> 0, busy |-> <<>>,
     seeds |-> <<>>, scraped |-> <<>>, logged |-> <<>>]

InitBatch ==
    /\ InitFetch
    /\ ncalls = 0
    /\ pc = "idle"
    /\ inv = NoInvocation
    /\ w = NoBatch
    /\ documents = <<>>
    /\ docsHTML \in SUBSET BatchArtifacts
    /\ searchHTML = {}
    /\ checkpoint = NoCheckpoint
    /\ json_gz = <<>>
    /\ faults = 0
    /\ ninv = 0
    /\ seen = {}
    /\ cp_writes = 0
    /\ first_page = <<>>
    /\ seed = NoResume
    /\ killed_at = "none"
    /\ processed = {}

\* the entry of the two functions, up to the loop over the years
StartLocal ==
    /\ pc = "idle"
    /\ \E parallel \in BOOLEAN, cpu_count \in 1..MaxWorkers,
          label_types \in LabelTypeChoices, hash_seed \in HashSeeds :
          /\ ~parallel => cpu_count = 1
          /\ inv' = [mode |-> IF parallel THEN "local_multiprocess" ELSE "local",
                     years |-> LocalYears, label_types |-> label_types,
                     cpu_count |-> cpu_count, hash_seed |-> hash_seed]
    /\ w' = NoBatch
    /\ documents' = <<>>
    /\ pc' = "local_year"
    /\ ninv' = ninv + 1
    /\ UNCHANGED <<fetchVars, ncalls, diskVars, faults, histVars>>

\* one pass of "for year in years", up to the files of the year; a year
\* without a file is a directory that is missing (listdir raises) or empty
\* (the summary line divides by len(documents))
LocalYear ==
    /\ pc = "local_year"
    /\ exception = "none"
    /\ IF w.yi = Len(inv.years)
       THEN /\ pc' = "local_done"
            /\ UNCHANGED <<w, documents, exception>>
       ELSE LET year == inv.years[w.yi + 1]
                listing == ListDir(docsHTML, year)
                inputs == SelectSeq(listing, EndsWithGz)
            IN  IF listing = <<>>
                THEN /\ exception' \in {"FileNotFoundError", "ZeroDivisionError"}
                     /\ UNCHANGED <<pc, w, documents>>
                ELSE /\ \E seeds \in [1..inv.cpu_count -> HashSeeds] :
                           w' = [w EXCEPT
                                   !.year = year, !.inputs = inputs, !.i = 0,
                                   !.busy = [j \in 1..inv.cpu_count |-> 0],
                                   !.seeds = IF inv.mode = "local"
                                             THEN <<inv.hash_seed>> ELSE seeds,
                                   !.scraped = [k \in 1..Len(inputs) |-> <<>>]]
                     /\ documents' = <<>>
                     /\ pc' = IF inputs = <<>> THEN "local_summary"
                              ELSE IF inv.mode = "local" THEN "local_loop"
                              ELSE "local_pool"
                     /\ UNCHANGED exception
    /\ UNCHANGED <<r, cooldowns, errors, not_found, last_sleep, fpc, call, ncalls,
                   inv, diskVars, faults, ninv, histVars>>

\* get_documents_local: one pass of "for file in listdir(dir_scrape)"
LocalFile ==
    /\ pc = "local_loop"
    /\ exception = "none"
    /\ LET file == w.inputs[w.i + 1]
           res == ScrapeLocalFile(file, inv.label_types, inv.hash_seed)
       IN  IF res.error # "none"
           THEN /\ exception' = res.error
                /\ UNCHANGED <<pc, w, documents>>
           ELSE /\ documents' = Update(documents, res.to_rtn)
                /\ w' = [w EXCEPT !.i = @ + 1, !.logged = @ \o res.logged]
                /\ pc' = IF w.i + 1 = Len(w.inputs) THEN "local_summary"
                         ELSE "local_loop"
                /\ UNCHANGED exception
    /\ UNCHANGED <<r, cooldowns, errors, not_found, last_sleep, fpc, call, ncalls,
                   inv, diskVars, faults, ninv, histVars>>

\* get_documents_local_multiprocess: a worker of the pool that is idle takes
\* the next input
WorkerTakes(j) ==
    /\ pc = "local_pool"
    /\ exception = "none"
    /\ w.busy[j] = 0
    /\ w.i < Len(w.inputs)
    /\ w' = [w EXCEPT !.busy[j] = w.i + 1, !.i = @ + 1]
    /\ UNCHANGED <<fetchVars, ncalls, pc, inv, documents, diskVars, faults, ninv,
                   histVars>>

\* a worker returns the dictionary of its input; an exception of the
\* extractor is raised again in the parent
WorkerReturns(j) ==
    /\ pc = "local_pool"
    /\ exception = "none"
    /\ w.busy[j] # 0
    /\ LET k == w.busy[j]
           res == ScrapeLocalFile(w.inputs[k], inv.label_types, w.seeds[j])
       IN  IF res.error # "none"
           THEN /\ exception' = res.error
                /\ UNCHANGED w
           ELSE /\ w' = [w EXCEPT !.busy[j] = 0, !.scraped[k] = res.to_rtn,
                                  !.logged = @ \o res.logged]
                /\ UNCHANGED exception
    /\ UNCHANGED <<r, cooldowns, errors, not_found, last_sleep, fpc, call, ncalls,
                   pc, inv, documents, diskVars, faults, ninv, histVars>>

\* the pool is done: the dictionaries are merged in the order of the inputs
LocalMerge ==
    /\ pc = "local_pool"
    /\ exception = "none"
    /\ w.i = Len(w.inputs)
    /\ \A j \in DOMAIN w.busy : w.busy[j] = 0
    /\ documents' = MergeAll(w.scraped)
    /\ pc' = "local_summary"
    /\ UNCHANGED <<fetchVars, ncalls, inv, w, diskVars, faults, ninv, histVars>>

\* the summary line of the year, which divides by len(documents), and the
\* record of the year
LocalWrite ==
    /\ pc = "local_summary"
    /\ exception = "none"
    /\ IF DOMAIN documents = {}
       THEN /\ exception' = "ZeroDivisionError"
            /\ UNCHANGED <<pc, w, json_gz>>
       ELSE /\ json_gz' = (ExtractedKey(w.year) :> documents) @@ json_gz
            /\ w' = [w EXCEPT !.yi = @ + 1]
            /\ pc' = "local_year"
            /\ UNCHANGED exception
    /\ UNCHANGED <<r, cooldowns, errors, not_found, last_sleep, fpc, call, ncalls,
                   inv, documents, docsHTML, searchHTML, checkpoint, faults, ninv,
                   histVars>>

NextBatch ==
    \/ StartLocal
    \/ LocalYear
    \/ LocalFile
    \/ \E j \in 1..MaxWorkers : j \in DOMAIN w.busy /\ WorkerTakes(j)
    \/ \E j \in 1..MaxWorkers : j \in DOMAIN w.busy /\ WorkerReturns(j)
    \/ LocalMerge
    \/ LocalWrite

SpecBatch == InitBatch /\ [][NextBatch]_vars

(***************************************************************************)
(* SpecFetch: a caller that calls __get_full_document a few times.         *)
(***************************************************************************)
CallGetFullDocument ==
    /\ fpc \in {"idle", "returned"}
    /\ ncalls < MaxCalls
    /\ ncalls' = ncalls + 1
    /\ \E endpoint \in {DocEndpoint(DocLink("D1")), DocEndpoint(DocLink("D2"))},
          max_retries \in 0..MaxRetriesBound,
          log_errors \in BOOLEAN, scrape \in BOOLEAN :
          EnterFetch(endpoint, max_retries, log_errors, "./", scrape, <<"TC">>)
    /\ UNCHANGED <<r, cooldowns, errors, not_found, last_sleep, exception>>

InitSpecFetch == Init

NextFetch ==
    \/ CallGetFullDocument /\ UNCHANGED crawlVars
    \/ Attempt /\ UNCHANGED <<ncalls, crawlVars>>
    \/ \E answer \in Answers : SetCookiesInFetch(answer) /\ UNCHANGED <<ncalls, crawlVars>>
    \/ FetchReturn /\ UNCHANGED <<ncalls, crawlVars>>

SpecFetch == InitSpecFetch /\ [][NextFetch]_vars

(***************************************************************************)
(* Properties of __get_full_document.                                      *)
(***************************************************************************)
\* the call at hand has left its loop through the break of a 404
EndedOnNotFound == call.keep_trying /\ call.count < call.max_retries

\* the step is the return of the call at hand
Returns == fpc = "after" /\ fpc' = "returned"

\* the error line of the call at hand is appended to errors.txt
ErrorLogged == errors' = [errors EXCEPT ![call.directory] = Append(@, call.endpoint)]

\* C5: a call of __get_full_document makes no attempt once max_retries
\* attempts have failed; it then ends by returning the empty body, no
\* classifiers and the empty text, and its endpoint is appended to errors.txt
\* once when log_errors is set; nothing is appended to errors.txt by a call
\* that returns a body or ends on a 404, nor by any step but a return.
C5_StopsAtMaxRetriesAndLogsOnce ==
    [][ /\ call'.count <= call'.max_retries
        /\ fpc' = "loop" => call'.count < call'.max_retries
        /\ RetriesExhausted(call'.count, call'.max_retries) => fpc' # "raised"
        /\ Returns =>
              IF RetriesExhausted(call.count, call.max_retries)
              THEN /\ call'.page_html = EmptyHtml
                   /\ call'.eurovoc_classifiers = {}
                   /\ call'.full_text = <<>>
                   /\ IF call.log_errors THEN ErrorLogged ELSE errors' = errors
              ELSE errors' = errors
        /\ ~Returns => errors' = errors
      ]_vars

\* the call has failed max_retries times, the last failure has set off a
\* session reset, and the bootstrap of the reset has ended the call with an
\* exception: nothing is returned and nothing is logged
C5_RaisedAtMaxRetries ==
    /\ fpc = "raised"
    /\ exception = "TypeError"
    /\ call.max_retries > 0
    /\ call.count = call.max_retries
    /\ call.log_errors
    /\ errors["./"] = <<>>

\* the step is a failed attempt of the call at hand
AttemptFails == fpc = "loop" /\ call'.count = call.count + 1

\* C7: failed attempts 1 and 2 of a call leave self.cooldowns as it is and
\* every later failed attempt adds one to it; when that makes it exceed 5 the
\* session is reset and the counter is 0 once the reset is over; so
\* the counter is in 0..5 after every step of a fetch.
C7_CooldownCounter ==
    [][ /\ AttemptFails =>
              IF ~Escalates(call'.count) THEN cooldowns' = cooldowns /\ fpc' # "reset"
              ELSE IF cooldowns + 1 > CooldownLimit
              THEN fpc' = "reset" /\ r' = NewSession
              ELSE cooldowns' = cooldowns + 1 /\ fpc' # "reset"
        /\ fpc = "reset" /\ fpc' # "reset" => cooldowns' = 0
        /\ fpc' # "reset" => cooldowns' \in 0..CooldownLimit
        /\ ~AttemptFails /\ fpc # "reset" => cooldowns' = cooldowns
      ]_vars

\* a session reset has ended with an exception and the counter is past 5
C7_CounterLeftPastLimit ==
    /\ fpc = "raised"
    /\ exception = "TypeError"
    /\ cooldowns > CooldownLimit

\* C6: a 404 answer to a document request of the crawl appends the endpoint
\* to not_found.txt and ends the loop of the call whatever is left of
\* max_retries; the call makes no further request, returns the empty body
\* and writes no error line, and the crawl passes on to the next stub of the
\* page without an exception.
C6_NotFoundIsTerminal ==
    [][ /\ pc = "fetching" /\ FetchAttempt("404", EmptyHtml) =>
              /\ not_found' = [not_found EXCEPT
                                 ![call.directory] = Append(@, call.endpoint)]
              /\ fpc' = "after"
              /\ call'.count = call.count
              /\ EndedOnNotFound'
        /\ pc = "fetching" /\ fpc \in {"after", "returned"} /\ EndedOnNotFound =>
              /\ fpc' \notin {"loop", "reset", "raised"}
              /\ call' = call
              /\ call.page_html = EmptyHtml
              /\ errors' = errors
              /\ not_found' = not_found
        /\ pc = "store" /\ EndedOnNotFound =>
              /\ pc' = "stubs"
              /\ w'.i = w.i + 1
              /\ exception' = "none"
              /\ docsHTML' = docsHTML
              /\ documents'[w.term][Stub.doc_id].full_text = <<>>
      ]_vars

\* a document was answered 404 after one failed attempt, with attempts left:
\* its endpoint is in not_found.txt and the crawl stands before the next stub
C6_NotFoundThenNextStub ==
    /\ pc = "stubs"
    /\ exception = "none"
    /\ w.i = 1
    /\ Len(w.documents_in_page) > 1
    /\ EndedOnNotFound
    /\ call.count = 1
    /\ call.max_retries - call.count > 1
    /\ not_found["./"] = <<call.endpoint>>
    /\ errors["./"] = <<>>

(***************************************************************************)
(* Properties of the crawl.                                                *)
(***************************************************************************)
\* the step is the flush of the term walked, with save_data set
Flushes == pc = "flush" /\ pc' = "for" /\ inv.save_data

\* C2: the record flushed for a term walked with save_data set has exactly
\* the doc_ids of the stubs parsed from the search pages fetched for that
\* term in the walk, each once.
C2_FlushHoldsTheStubsParsed ==
    [][ Flushes => /\ w.dirterm \in DOMAIN json_gz'
                   /\ DOMAIN json_gz'[w.dirterm] = seen ]_vars

\* the record of 2001 is flushed with the three doc_ids of its two pages
C2_TwoPagesFlushed ==
    /\ pc = "for"
    /\ inv.save_data
    /\ w.dirterm = <<"2001">>
    /\ w.dirterm \in DOMAIN json_gz
    /\ Cardinality(seen) = 3
    /\ DOMAIN json_gz[w.dirterm] = seen

\* C3: with skip_existing set, no request of __get_full_document is made
\* for a stub whose artifact is in docsHTML/<dirterm>, on whatever page the
\* stub is listed and however often the page is fetched.
C3_NoFetchOfExistingArtifact ==
    pc = "fetching" /\ inv.skip_existing => <<w.dirterm, Stub.doc_id>> \notin docsHTML

\* page 1 was fetched again and both of its stubs were skipped
C3_WholePageSkipped ==
    /\ pc = "stubs"
    /\ inv.skip_existing
    /\ w.page = 1
    /\ w.i = 2
    /\ w.skip_count = 2
    /\ \A i \in 1..2 : <<w.dirterm, w.documents_in_page[i].doc_id>> \in docsHTML

\* C8: the checkpoint is written once for every stub that is fetched, when
\* the call of __get_full_document has returned and before the next stub is
\* taken up, and at no other step; once written it holds the endpoint of the
\* search page walked and the endpoint of that document.
C8_CheckpointOncePerFetchedStub ==
    [][ /\ checkpoint' # checkpoint \/ cp_writes' > cp_writes =>
              pc = "fetching" /\ fpc = "returned" /\ pc' = "store"
        /\ pc' = "fetching" => cp_writes' = 0
        /\ pc = "fetching" /\ fpc = "returned" => pc' = "store"
        /\ pc' = "store" =>
              /\ cp_writes' = 1
              /\ checkpoint' = [exists |-> TRUE,
                                last_search_endpoint |->
                                    Endpoint(inv.mode, w.term, w.page),
                                last_doc_endpoint |-> DocEndpoint(Stub.link)]
        /\ pc = "store" => pc' = "stubs" /\ w'.i = w.i + 1
      ]_vars

\* the checkpoint of the last stub of page 2, whose fetch has used up its
\* attempts
C8_CheckpointAfterFailedFetch ==
    /\ pc = "store"
    /\ w.page = 2
    /\ w.i = 1
    /\ cp_writes = 1
    /\ call.max_retries > 0
    /\ call.count = call.max_retries
    /\ checkpoint.last_doc_endpoint = DocEndpoint(DocLink("D3"))
    /\ checkpoint.last_search_endpoint = Endpoint("year", <<"2001">>, 2)

\* the record of doc_id d under term t holds something the extractor found
Filled(docs, t, d) ==
    docs[t][d].eurovoc_classifiers # {} \/ docs[t][d].full_text # <<>>

\* C4: while the record of a term is in memory, the classifiers and the text
\* of a document that the extractor has filled in are not changed again, and
\* the record of a stub that is skipped stays at the placeholders; also when
\* a page is fetched again and when a doc_id is listed on two pages.
C4_RecordFilledOnce ==
    [][ /\ \A t \in DOMAIN documents \cap DOMAIN documents' :
              \A d \in DOMAIN documents[t] :
                 Filled(documents, t, d) =>
                    /\ documents'[t][d].eurovoc_classifiers =
                           documents[t][d].eurovoc_classifiers
                    /\ documents'[t][d].full_text = documents[t][d].full_text
        /\ pc = "stubs" /\ pc' = "stubs" /\ w'.skip_count > w.skip_count =>
              ~Filled(documents', w.term, Stub.doc_id)
      ]_vars

\* the record flushed for 2001 holds no text for a document whose text the
\* extractor had found: its artifact is on disk, written by this crawl
C4_ExtractedTextLost ==
    /\ pc = "for"
    /\ inv.save_data /\ inv.save_html /\ inv.skip_existing
    /\ <<"2001">> \in DOMAIN json_gz
    /\ \E d \in DOMAIN json_gz[<<"2001">>] :
          /\ <<(<<"2001">>), d>> \in docsHTML
          /\ json_gz[<<"2001">>][d].full_text = <<>>
          /\ json_gz[<<"2001">>][d].eurovoc_classifiers = {}

(***************************************************************************)
(* Properties of the resume.                                               *)
(***************************************************************************)
\* no term of the list up to place i is the term of the cursor
Precedes(i) == \A j \in 1..i : inv.terms[j] # seed.term

\* C10: a walk seeded with the cursor (X, p) requests no search page of a
\* term that precedes X in the list, requests page p first of the pages of
\* X, and page 1 first of the pages of every term after X; when the walk is
\* over X and the terms after it have been requested.
C10_ResumeCursor ==
    seed.set =>
       \A i \in DOMAIN first_page :
          IF Precedes(i) THEN first_page[i] = 0
          ELSE IF Precedes(i - 1)
          THEN /\ first_page[i] \in {0, ToInt(seed.page)}
               /\ w.ti > i \/ pc = "done" => first_page[i] # 0
          ELSE /\ first_page[i] \in {0, 1}
               /\ w.ti > i \/ pc = "done" => first_page[i] # 0

\* a walk seeded with (2001, 2) has ended: page 2 was the first page
\* requested for 2001 and page 1 the first for the term after it
C10_ResumedAtPageTwo ==
    /\ pc = "done"
    /\ seed.set
    /\ seed.term = inv.terms[1]
    /\ ToInt(seed.page) = 2
    /\ first_page = <<2, 1>>

\* C9: the cursor planned from a checkpoint names the term of the list and
\* the page that were walked when the checkpoint was written, for every term
\* of the two lists, the "?" of the year list included; the term of a cursor
\* is a term of the list, and a seeded walk does not pass over the whole list.
C9_CheckpointRoundTrip ==
    /\ pc = "store" =>
          LET cursor == ResumeParams(checkpoint, inv.mode)
          IN  /\ cursor.term = inv.terms[w.ti]
              /\ ToInt(cursor.page) = w.page
    /\ seed.set => \E i \in DOMAIN inv.terms : inv.terms[i] = seed.term
    /\ seed.set /\ pc = "done" => \E i \in DOMAIN first_page : first_page[i] # 0

\* a crawl by year resumed from a checkpoint written in the walk of "?" has
\* ended without requesting a search page
C9_UnknownYearNeverReentered ==
    /\ pc = "done"
    /\ inv.mode = "year"
    /\ seed.set
    /\ seed.term = <<"FV_OTHER">>
    /\ HasParameter(checkpoint.last_search_endpoint, "DD_YEAR")
    /\ \A i \in DOMAIN first_page : first_page[i] = 0

\* the stubs of the pages of a term from page p on, in the order of the walk
RECURSIVE StubsFrom(_, _)
StubsFrom(term, p) ==
    IF p > NumPages(term) THEN <<>>
    ELSE GetDocumentsInfo(SitePages(term)[p]) \o StubsFrom(term, p + 1)

\* the record a walk leaves of stubs, the server answering every request
\* with the page it holds: the placeholders, the skip, the fetch, the
\* artifact and the filling of each stub in turn
RECURSIVE WalkStubs(_, _, _, _, _)
WalkStubs(stubs, record, artifacts, dirterm, o) ==
    IF stubs = <<>> THEN record
    ELSE LET stub == Head(stubs)
             page_html == WebPage(DocEndpoint(stub.link))
             scraped == ScrapePage(page_html, o.label_types)
             skipped == ShouldSkip(o.skip_existing, artifacts, dirterm, stub.doc_id)
             filled == IF skipped \/ ~o.save_data THEN Placeholder(stub)
                       ELSE [Placeholder(stub) EXCEPT
                               !.eurovoc_classifiers = scraped.eurovoc_classifiers,
                               !.full_text = scraped.full_text]
             saved == IF ~skipped /\ SavesArtifact(o.save_html, page_html)
                      THEN artifacts \cup {<<dirterm, stub.doc_id>>}
                      ELSE artifacts
         IN  WalkStubs(Tail(stubs), (stub.doc_id :> filled) @@ record, saved,
                       dirterm, o)

\* the record a crawl that is not interrupted flushes for a term, from an
\* empty data directory
Uninterrupted(term, dirterm, o) == WalkStubs(StubsFrom(term, 1), <<>>, {}, dirterm, o)

\* the invocation is the resume of a crawl that was terminated with the
\* checkpoint of a stub just written or the pass of the stub just finished,
\* artifacts and skip filter on, the server answering every request with
\* the page it holds
ResumedAfterCheckpoint ==
    /\ ninv = 2
    /\ inv.resume
    /\ seed.set
    /\ killed_at \in {"store", "stubs"}
    /\ inv.save_html /\ inv.skip_existing /\ inv.save_data
    /\ faults = MaxResumeFaults

\* C1: the resume of a crawl that was terminated right after a checkpoint
\* of (X, p) requests page p of X first, and the record it flushes for X
\* and for each later term is the record a crawl that is not interrupted
\* flushes for that term: the same doc_ids with the same classifiers and text.
C1_ResumedFlushEqualsUninterrupted ==
    [][ /\ ResumedAfterCheckpoint /\ pc = "request"
           /\ (\A i \in DOMAIN first_page : first_page[i] = 0) =>
              inv.terms[w.ti] = seed.term /\ w.page = ToInt(seed.page)
        /\ ResumedAfterCheckpoint /\ Flushes =>
              json_gz'[w.dirterm] = Uninterrupted(w.term, w.dirterm, OptionsOf(inv))
      ]_vars

\* the resume of a crawl terminated in page 2 of a term has flushed that
\* term with the stubs of page 2 alone
C1_EarlierPagesMissing ==
    /\ ResumedAfterCheckpoint
    /\ pc = "for"
    /\ w.ti = 1
    /\ ToInt(seed.page) = 2
    /\ w.dirterm \in DOMAIN json_gz
    /\ DOMAIN json_gz[w.dirterm] # DOMAIN Uninterrupted(w.term, w.dirterm, OptionsOf(inv))

(***************************************************************************)
(* Properties of the resume planning.                                      *)
(***************************************************************************)
\* the checkpoint was written by a walk under mode: its search endpoint
\* carries the search term of that mode after the base url
WrittenUnder(cp, mode) ==
    /\ cp.exists
    /\ SubSeq(cp.last_search_endpoint, 2, 1 + Len(SearchTerm(mode))) = SearchTerm(mode)

\* the step is the resume planning of a running invocation
Plans == pc = "plan" /\ exception = "none" /\ pc' # "killed"

\* the resume planning has ended the invocation
ResumeRefused == exception \in {"Checkpoint unavailable", "Cannot resume"}

\* C11: a resume without a checkpoint file ends with "Checkpoint
\* unavailable", a resume from a checkpoint written under the other mode
\* ends with "Cannot resume"; the invocation so ended walks no term, requests
\* no page and leaves the checkpoint and the rest of the data directory as
\* they were.
C11_ResumeRefused ==
    [][ /\ Plans /\ inv.resume /\ ~checkpoint.exists =>
              exception' = "Checkpoint unavailable"
        /\ Plans /\ inv.resume
           /\ (\E m \in Modes \ {inv.mode} : WrittenUnder(checkpoint, m)) =>
              exception' = "Cannot resume"
        /\ ResumeRefused' =>
              /\ pc' = "plan"
              /\ diskVars' = diskVars
              /\ \A i \in DOMAIN first_page' : first_page'[i] = 0
              /\ ~seed'.set
        /\ ResumeRefused /\ ninv' = ninv => UNCHANGED vars
      ]_vars

\* a crawl by category asked to resume from the checkpoint of a crawl by
\* year has ended with "Cannot resume"
C11_YearCheckpointResumedByCategory ==
    /\ exception = "Cannot resume"
    /\ inv.mode = "category"
    /\ WrittenUnder(checkpoint, "year")
    /\ ninv = 2

\* the step that follows the stubs of a page lacking the "next page" link
AfterLastStubOfOpenPage ==
    /\ pc = "stubs"
    /\ exception = "none"
    /\ w.i = Len(w.documents_in_page)
    /\ ~w.soup.has_next
    /\ pc' # "killed"

\* the total page count of the partition as the walker knows it once the page
\* is parsed: the one kept from an earlier page, else the one the page's
\* "last page" link declares, else the page itself
KnownTotal ==
    IF w.total_pages # 0 THEN w.total_pages
    ELSE IF w.soup.last_href # <<>> THEN NumPages(w.term)
    ELSE w.page

\* C12: after a search page p answered ok that lacks the "next page" link, the
\* walker sleeps 60 seconds and requests p again, without ending the
\* partition, when p is below the total page count or the total is 0; it ends
\* the partition only when p is at least the total
C12_EndOfPartitionRule ==
    [][ AfterLastStubOfOpenPage =>
          /\ w'.total_pages = KnownTotal
          /\ (w.page < KnownTotal \/ KnownTotal = 0) =>
                /\ pc' = "request"
                /\ w'.page = w.page
                /\ ~w'.end
                /\ last_sleep' = 60
                /\ json_gz' = json_gz
          /\ (pc' = "flush" \/ w'.end) => w.page >= KnownTotal
      ]_vars

\* the first page of a partition of two pages was served without its "next
\* page" link and is about to be requested again
C12_SamePageRequestedAgain ==
    /\ pc = "request"
    /\ w.page = 1
    /\ w.total_pages = 2
    /\ ~w.soup.has_next
    /\ w.i = Len(w.documents_in_page)
    /\ w.count = 1
    /\ ~w.end
    /\ last_sleep = 60

(***************************************************************************)
(* SpecFair: the crawl of Spec as a sequential program that always takes   *)
(* its next step.  The answers that are not good ones are bounded by the   *)
(* budget of faults, so every request is answered well in the end.         *)
(***************************************************************************)
SpecFair == Init /\ [][Next]_vars /\ WF_vars(CrawlStep)

\* every partition of the invocation is closed and the walker has returned
CrawlTerminated ==
    /\ pc = "done"
    /\ w.ti = Len(inv.terms)
    /\ inv.save_data => \A i \in DOMAIN inv.terms : DirTerm(inv.terms[i]) \in DOMAIN json_gz

\* the walk is outside the assumption: a search page was given up after its
\* retries, or a document fetch has raised instead of returning
OutsideAssumption == w.given_up \/ fpc = "raised"

\* C13: when no search page is given up after its retries and every document
\* fetch returns, a walk that has begun over the (finite) list of terms closes
\* every partition and the crawl terminates
C13_WalkTerminates == (pc = "for") ~> (CrawlTerminated \/ OutsideAssumption)

\* a crawl has ended after a search page was served without its links, a
\* connection error and a gateway timeout, none of them given up
C13_TerminatedAfterFaults ==
    /\ CrawlTerminated
    /\ ~w.given_up
    /\ faults = 0
    /\ Len(inv.terms) = 2
    /\ exception = "none"

\* C14: a search page given up after its retries does not stop the crawl: the
\* endpoint is logged, and the step after it closes the partition (flushing it
\* when data is saved) and hands over to the next key without an exception,
\* whichever page was given up, the first one included
C14_SearchFailureTolerated ==
    [][ /\ (pc = "request" /\ w'.given_up) =>
              /\ pc' = "flush"
              /\ exception' = "none"
              /\ inv.log_errors => errors'[DataDir] = Append(errors[DataDir], w'.endpoint)
        /\ (pc = "flush" /\ w.given_up /\ exception = "none") =>
              /\ exception' = "none"
              /\ pc' = "for"
              /\ inv.save_data => w.dirterm \in DOMAIN json_gz'
      ]_vars

\* the first page of a partition was given up before any page of it was
\* answered ok, and the summary of the partition has raised
C14_FirstPageGivenUp ==
    /\ exception = "KeyError"
    /\ pc = "flush"
    /\ w.given_up
    /\ first_page[w.ti] = 1
    /\ w.term \notin DOMAIN documents
    /\ w.dirterm \notin DOMAIN json_gz

\* C15: no request of the fetch loop and no cookie bootstrap of a session
\* reset ends the invocation: after every such step the call is still in its
\* loop, in the reset, or past the loop on its way to return, and no exception
\* has been raised
C15_TransientFailuresNotFatal ==
    [][ (fpc = "loop" \/ fpc = "reset") =>
          /\ exception' = "none"
          /\ fpc' \in {"loop", "reset", "after", "idle"}
      ]_vars

\* a failed attempt past the quick ones has reset the session, and the
\* bootstrap request of the new session was answered with a non-ok status
C15_ResetBootstrapRefused ==
    /\ exception = "TypeError"
    /\ fpc = "raised"
    /\ r = NewSession
    /\ Escalates(call.count)
    /\ NeedsReset(cooldowns)

\* "any(label_type not in {'TC', 'MT', 'DO'} for label_type in label_types)"
InvalidLabelTypes(label_types) ==
    \E i \in DOMAIN SplitLabelTypes(label_types) :
       SplitLabelTypes(label_types)[i] \notin LabelTypes

\* C16: an invocation whose label types hold a value outside TC, MT, DO has
\* failed with a ValueError at its entry, whatever its other options: no
\* request was answered, and no search page, artifact, checkpoint, flush or
\* log line was written
C16_InvalidLabelTypesFailFirst ==
    (ninv > 0 /\ InvalidLabelTypes(inv.label_types)) =>
        /\ exception = "ValueError"
        /\ pc = "cookies"
        /\ r = NewSession
        /\ searchHTML = {}
        /\ docsHTML = {}
        /\ ~checkpoint.exists
        /\ DOMAIN json_gz = {}
        /\ \A d \in DOMAIN errors : errors[d] = <<>>
        /\ \A d \in DOMAIN not_found : not_found[d] = <<>>

\* a crawl with an invalid label type has saved a search page and has had a
\* document request answered before the extractor raised
C16_RaisedAtFirstDocument ==
    /\ InvalidLabelTypes(inv.label_types)
    /\ exception = "ValueError"
    /\ fpc = "raised"
    /\ r = Response("200")
    /\ searchHTML # {}
    /\ call.page_html # EmptyHtml

\* C17: a request answered 504 is followed by a sleep of 60 seconds before
\* the next attempt, at the search pages (where the attempt is not counted
\* either) and at the documents, whatever the count of attempts
C17_GatewayTimeoutCoolsDown ==
    [][ /\ (pc = "request" /\ SearchPage("504", "full")) =>
              /\ last_sleep' = 60
              /\ pc' = "request"
              /\ w'.count = w.count
        /\ (pc = "fetching" /\ FetchAttempt("504", EmptyHtml) /\ fpc' = "loop") =>
              last_sleep' = 60
      ]_vars

\* the first request of a document was answered 504 and the next attempt
\* comes after two seconds
C17_SecondAttemptAfterTwoSeconds ==
    /\ pc = "fetching"
    /\ fpc = "loop"
    /\ r = Response("504")
    /\ call.count = 1
    /\ last_sleep = 2

\* log' is log with nothing removed or rewritten
AppendedOnly(log) ==
    \A d \in DOMAIN log :
       /\ Len(log'[d]) >= Len(log[d])
       /\ SubSeq(log'[d], 1, Len(log[d])) = log[d]

\* C18: the endpoint of every search page and of every document that has
\* exhausted its retries is appended to errors.txt, and the endpoint of every
\* document answered 404 to not_found.txt, both in the data directory of the
\* crawl; nothing is written to a log elsewhere and nothing is taken from one
C18_FailureRecordsKept ==
    [][ /\ (pc = "request" /\ w'.given_up) =>
              errors'[DataDir] = Append(errors[DataDir], w'.endpoint)
        /\ (pc = "fetching" /\ Returns /\ call.count > 0
            /\ RetriesExhausted(call.count, call.max_retries)) =>
              errors'[DataDir] = Append(errors[DataDir], call.endpoint)
        /\ (pc = "fetching" /\ FetchAttempt("404", EmptyHtml)) =>
              not_found'[DataDir] = Append(not_found[DataDir], call.endpoint)
        /\ \A d \in Directories \ {DataDir} :
              errors'[d] = errors[d] /\ not_found'[d] = not_found[d]
        /\ AppendedOnly(errors)
        /\ AppendedOnly(not_found)
      ]_vars

\* a crawl that logs its errors has ended with a document given up and a
\* document not found, and the data directory holds neither log
C18_DocumentLogsOutsideDataDir ==
    /\ pc = "done"
    /\ inv.log_errors
    /\ inv.max_retries = 1
    /\ errors["./"] # <<>>
    /\ not_found["./"] # <<>>
    /\ errors[DataDir] = <<>>
    /\ not_found[DataDir] = <<>>

(***************************************************************************)
(* Properties of the extractor.                                            *)
(***************************************************************************)
\* the tables of mappings considered: every part of self.label_mappings
MappingTables ==
    {[c \in D |-> label_mappings[c]] : D \in SUBSET DOMAIN label_mappings}

\* the lists of classifier codes considered
CodeLists ==
    {<<>>} \cup {<<a>> : a \in {<<"1015">>, <<"2030">>, <<"9999">>}}
    \cup {<<a, b>> : a \in {<<"1015">>, <<"2030">>, <<"9999">>},
                     b \in {<<"1015">>, <<"2030">>, <<"9999">>}}

\* the lists of valid label types considered
TypeLists ==
    {<<a>> : a \in LabelTypes} \cup {<<a, b>> : a \in LabelTypes, b \in LabelTypes}
    \cup {<<"TC", "MT", "DO">>}

\* the roll-up agrees, for every table, every list of codes and every list of
\* label types, with the union of the leaves, the mapped codes marked "_mt"
\* and the first two characters of the mapped codes marked "_do"
RollUpIsTheUnion ==
    \A mappings \in MappingTables, codes \in CodeLists, types \in TypeLists :
       LET leaf == SeqRange(codes)
           G == SeqRange(types)
           known == leaf \cap DOMAIN mappings
       IN  MapLabelsWith(mappings, codes, types) =
              UNION { IF "TC" \in G THEN leaf ELSE {},
                      IF "MT" \in G
                      THEN {Append(mappings[c], "_mt") : c \in known} ELSE {},
                      IF "DO" \in G
                      THEN {<<mappings[c][1], mappings[c][2], "_do">> : c \in known}
                      ELSE {} }

\* C19: the classifiers the extractor returns for a page are the union, over
\* the requested label types, of the codes of the panel (TC), of their
\* mappings marked "_mt" (MT) and of the first two characters of their
\* mappings marked "_do" (DO); a code without a mapping adds nothing to MT and
\* DO and raises nothing.  Codes 1015 and 2030 with the mappings 10_20 and
\* 20_05 give, for MT and DO, 10_20_mt, 20_05_mt, 10_do and 20_do.
C19_TaxonomyRollUp ==
    /\ RollUpIsTheUnion
    /\ (pc = "local" /\ ~InvalidLabelTypes(call.label_types)
        /\ exception # "AttributeError") =>
          LET leaf == SeqRange(PanelCodes(call.page_html))
              G == SeqRange(SplitLabelTypes(call.label_types))
              known == leaf \cap DOMAIN label_mappings
          IN  /\ exception = "none"
              /\ call.eurovoc_classifiers =
                    UNION { IF "TC" \in G THEN leaf ELSE {},
                            IF "MT" \in G
                            THEN {Append(label_mappings[c], "_mt") : c \in known}
                            ELSE {},
                            IF "DO" \in G
                            THEN {<<label_mappings[c][1], label_mappings[c][2], "_do">> :
                                     c \in known}
                            ELSE {} }
    /\ (pc = "local" /\ PanelCodes(call.page_html) = << <<"1015">>, <<"2030">> >>
        /\ call.label_types = <<"MT", ",", "DO">> /\ exception = "none") =>
          call.eurovoc_classifiers =
             { <<"1", "0", "_", "2", "0", "_mt">>, <<"2", "0", "_", "0", "5", "_mt">>,
               <<"1", "0", "_do">>, <<"2", "0", "_do">> }

\* a page with a mapped code and a code without a mapping was extracted for
\* MT and DO: the mapped code alone is in the result
C19_UnmappedCodeDropped ==
    /\ pc = "local"
    /\ exception = "none"
    /\ PanelCodes(call.page_html) = << <<"9999">>, <<"1015">> >>
    /\ call.label_types = <<"MT", ",", "DO">>
    /\ call.eurovoc_classifiers =
          { <<"1", "0", "_", "2", "0", "_mt">>, <<"1", "0", "_do">> }

\* C20: the text of a page is the one of exactly one rule, chosen by the
\* markers of the page in the order plain text, standard, consolidated: the
\* children of txt_te when div#TexteOnly exists (no text when it has no
\* txt_te, whatever the other markers); else every paragraph and block of
\* document1 when a p.doc-ti exists; else, when a p.disclaimer exists,
\* document1 with the consolidated filter (the notice and the blocks before
\* the first title left out).  The two rules that read document1 raise an
\* AttributeError when it is missing.  A page with none of the three markers
\* gives the empty text and no exception.
C20_LayoutDispatch ==
    (pc = "local" /\ ~InvalidLabelTypes(call.label_types)) =>
       LET page == call.page_html
       IN  CASE page.TexteOnly ->
                  /\ exception = "none"
                  /\ call.full_text = IF page.txt_te.present
                                      THEN <<"plain", " ", "text">> ELSE <<>>
             [] ~page.TexteOnly /\ page.doc_ti ->
                  IF page.document1.present
                  THEN /\ exception = "none"
                       /\ call.full_text = <<"notice", "\n", "preamble", "\n",
                                             "heading", "\n", "body">>
                  ELSE exception = "AttributeError"
             [] ~page.TexteOnly /\ ~page.doc_ti /\ page.disclaimer ->
                  IF page.document1.present
                  THEN /\ exception = "none"
                       /\ call.full_text = <<"heading", "\n", "body">>
                  ELSE exception = "AttributeError"
             [] OTHER ->
                  /\ exception = "none"
                  /\ call.full_text = <<>>

\* a page that carries the three markers and both text elements was
\* extracted by the plain-text rule
C20_PlainTextBeforeTheRest ==
    /\ pc = "local"
    /\ exception = "none"
    /\ call.page_html.TexteOnly
    /\ call.page_html.doc_ti
    /\ call.page_html.disclaimer
    /\ call.page_html.txt_te.present
    /\ call.page_html.document1.present
    /\ call.full_text = <<"plain", " ", "text">>

(***************************************************************************)
(* Properties of the consolidated filter.                                  *)
(***************************************************************************)
\* the children of the container of the page extracted
Children == call.page_html.document1.children

IsTitle(node) == node.name = "p" /\ "title-doc-first" \in node.class

\* the children from the first title paragraph on
FromTitle(children) ==
    LET titles == {i \in DOMAIN children : IsTitle(children[i])}
    IN  IF titles = {} THEN <<>>
        ELSE SubSeq(children, CHOOSE i \in titles : \A j \in titles : i <= j,
                    Len(children))

\* the text the extractor gives for a container
TextOf(children) == ScrapePage(ConsolidatedPage(children), <<"TC">>).full_text

\* C21: in the consolidated layout no node before the first title paragraph
\* contributes to the text: for every container with a title paragraph, the
\* text extracted is the text of the container cut at its first title.
C21_NothingBeforeTheTitle ==
    (pc = "container" /\ FromTitle(Children) # <<>>) =>
       call.full_text = TextOf(FromTitle(Children))

\* a paragraph without a class stands before the title, and its text is the
\* first line of the text extracted
C21_ParagraphBeforeTitleKept ==
    /\ pc = "container"
    /\ Children = <<P({}, <<"para">>), P({"title-doc-first"}, <<"title">>)>>
    /\ call.full_text = <<"para", "\n", "title">>

\* a node that carries a marker of the filter: a paragraph, div or table of
\* class reference, disclaimer, hd-modifiers or arrow, or a paragraph of
\* class footnote or modref
Marked(node) ==
    \/ node.name \in {"p", "div", "table"} /\ node.class \cap SuppressedClasses # {}
    \/ node.name = "p" /\ node.class \cap NoteClasses # {}

\* the children without the marked nodes
Unmarked(children) == SelectSeq(children, LAMBDA node : ~Marked(node))

\* C22: in the consolidated layout a paragraph, table or div that carries a
\* reference, disclaimer, modifier-heading or navigation-arrow marker, and a
\* footnote or modification-reference paragraph, contribute nothing to the
\* text, before and after the title: the text extracted is the text of the
\* container without its marked nodes.
C22_MarkedNodesSuppressed ==
    pc = "container" => call.full_text = TextOf(Unmarked(Children))

\* a div of class reference stands after the title, and its text is in the
\* text extracted
C22_MarkedDivKept ==
    /\ pc = "container"
    /\ Children = <<P({"title-doc-first"}, <<"title">>),
                    Block({"reference"}, <<"div-reference">>)>>
    /\ call.full_text = <<"title", "\n", "div-reference">>

(***************************************************************************)
(* Properties of the local replay.                                         *)
(***************************************************************************)
\* the files of the year at hand whose dictionary the run holds, each with
\* the dictionary scrape_local_core returned for it: in the sequential loop
\* the file of the pass before, in the pool every input that was returned
ScrapedFiles ==
    IF inv.mode = "local"
    THEN {[file |-> w.inputs[k],
           to_rtn |-> [d \in {LocalDocId(w.inputs[k])} |-> documents[d]]] :
             k \in {n \in {w.i} : /\ pc \in {"local_loop", "local_summary"}
                                  /\ n > 0
                                  /\ ~Unreadable(w.inputs[n])
                                  /\ ValidFileName(w.inputs[n])}}
    ELSE {[file |-> w.inputs[k], to_rtn |-> w.scraped[k]] :
             k \in {n \in DOMAIN w.scraped : /\ pc \in {"local_pool", "local_summary"}
                                             /\ w.scraped[n] # <<>>}}

\* C23: the extractor is deterministic: what a run holds for a stored page is
\* what every other run of the extractor on the same page and label types
\* gives, in the same process and in a process of another hash seed: the same
\* classifiers in the same order, and the same text.
C23_ExtractorDeterministic ==
    \A s \in ScrapedFiles, hash_seed \in HashSeeds :
       s.to_rtn = ScrapeLocalFile(s.file, inv.label_types, hash_seed).to_rtn

\* the sequential run of a process holds the two classifiers of a document,
\* and a process of the other hash seed lists them in the other order
C23_OrderDependsOnProcess ==
    /\ inv.mode = "local"
    /\ pc = "local_summary"
    /\ inv.label_types = <<"TC", ",", "MT">>
    /\ <<"D1">> \in DOMAIN documents
    /\ Len(documents[<<"D1">>].eurovoc_classifiers) = 2
    /\ \E hash_seed \in HashSeeds :
          documents[<<"D1">>].eurovoc_classifiers #
             ListOfSet(SeqRange(documents[<<"D1">>].eurovoc_classifiers), hash_seed)

\* a year's dictionary with every list of classifiers taken as a set
Unordered(docs) ==
    [d \in DOMAIN docs |-> [docs[d] EXCEPT !.eurovoc_classifiers = SeqRange(@)]]

\* the dictionaries the inputs of the year gave, in the order of the inputs
YearResults ==
    IF inv.mode = "local"
    THEN [k \in DOMAIN w.inputs |->
            ScrapeLocalFile(w.inputs[k], inv.label_types, inv.hash_seed).to_rtn]
    ELSE w.scraped

\* the orders in which n results can be merged
MergeOrders(n) == {f \in [1..n -> 1..n] : \A a, b \in 1..n : f[a] = f[b] => a = b}

\* the inputs that give an entry
WellFormed(file) == ~Unreadable(file) /\ ValidFileName(file)

\* C24: the merge of the local replay does not depend on the order: the
\* files of a year's directory that give an entry give different doc_ids,
\* the dictionary of the year is the same (the order inside the lists of
\* classifiers left aside) for every order in which the results of the
\* workers are merged, and it is the dictionary of the sequential extractor.
C24_MergeOrderIndependent ==
    (pc = "local_summary" /\ exception = "none") =>
       /\ \A a, b \in DOMAIN w.inputs :
             (a # b /\ WellFormed(w.inputs[a]) /\ WellFormed(w.inputs[b]))
                => LocalDocId(w.inputs[a]) # LocalDocId(w.inputs[b])
       /\ \A f \in MergeOrders(Len(YearResults)) :
             Unordered(MergeAll([k \in DOMAIN YearResults |-> YearResults[f[k]]]))
                = Unordered(documents)
       /\ Unordered(documents) =
             Unordered(MergeAll([k \in DOMAIN w.inputs |->
                  ScrapeLocalFile(w.inputs[k], inv.label_types, inv.hash_seed).to_rtn]))

\* the pool has scraped the artifacts CELEX-D1 and OJ-D1 of one directory,
\* and the dictionary of the year holds one entry for the two
C24_TwoArtifactsOneKey ==
    /\ pc = "local_summary"
    /\ inv.mode = "local_multiprocess"
    /\ inv.cpu_count = 2
    /\ {FileName(<<"CELEX", "-", "D1">>), FileName(<<"OJ", "-", "D1">>)}
          = SeqRange(w.inputs)
    /\ DOMAIN documents = {<<"D1">>}

\* C25: a file that cannot be read as an archive, or whose name gives no
\* doc_id, is logged and gives no entry; every other file of the year has
\* its entry, and the record of the year is written, by the sequential and
\* by the parallel function.
C25_MalformedArtifactSkipped ==
    /\ (pc = "local_summary" /\ ~InvalidLabelTypes(inv.label_types)) =>
          /\ DOMAIN documents =
                {LocalDocId(w.inputs[k]) :
                    k \in {n \in DOMAIN w.inputs : WellFormed(w.inputs[n])}}
          /\ SeqRange(w.logged) \cap SeqRange(w.inputs) =
                {w.inputs[k] : k \in {n \in DOMAIN w.inputs : ~WellFormed(w.inputs[n])}}
          /\ exception = "none"
    /\ (pc = "local_year" /\ w.yi > 0) =>
          /\ ExtractedKey(w.year) \in DOMAIN json_gz
          /\ json_gz[ExtractedKey(w.year)] = documents

\* the files of a year were all logged as malformed, and the run has ended
\* on the summary line of the year
C25_OnlyMalformedArtifacts ==
    /\ pc = "local_summary"
    /\ w.inputs # <<>>
    /\ SeqRange(w.logged) = SeqRange(w.inputs)
    /\ exception = "ZeroDivisionError"
    /\ json_gz = <<>>

(***************************************************************************)
(* Properties of the crawl, continued.                                     *)
(***************************************************************************)
\* C26: the map a crawl returns holds what was extracted: when the pass of a
\* stub ends after its document was fetched with a body, the record of the
\* document holds the classifiers and the text the extractor gives for that
\* body, with data saving on and with data saving off.
C26_ReturnedMapHoldsExtraction ==
    [][(/\ pc = "store"
        /\ pc' = "stubs"
        /\ ~call.page_html.blank
        /\ ~InvalidLabelTypes(inv.label_types)) =>
          LET rec == documents'[w.term][Stub.doc_id]
              scraped == Scraped[call.page_html, inv.label_types]
          IN  /\ rec.eurovoc_classifiers = scraped.eurovoc_classifiers
              /\ rec.full_text = scraped.full_text]_vars

\* a crawl with data saving off has returned: the document D1, whose body
\* was fetched and stored, has a record without classifiers and without text
C26_EmptyRecordReturned ==
    /\ pc = "done"
    /\ exception = "none"
    /\ ~inv.save_data
    /\ inv.mode = "year"
    /\ <<"CELEX", "-", "D1">> \in DOMAIN documents[<<"2001">>]
    /\ << <<"2001">>, <<"CELEX", "-", "D1">> >> \in docsHTML
    /\ documents[<<"2001">>][<<"CELEX", "-", "D1">>].eurovoc_classifiers = {}
    /\ documents[<<"2001">>][<<"CELEX", "-", "D1">>].full_text = <<>>

\* C27: a search page answered with a status that is neither ok nor 504 is
\* requested again while the count of such answers since the last ok answer
\* is below max_retries, and the answer after that logs the endpoint (when
\* errors are logged) and ends the walk of the partition; a 504 and a
\* connection error leave the count as it is, and the count is 0 when the
\* walk of a partition begins and whenever a page answered ok has been
\* processed.
C27_SearchRetryBound ==
    [][ /\ (pc = "request" /\ SearchPage("500", "full")) =>
              IF w.count < inv.max_retries
              THEN /\ pc' = "request"
                   /\ w'.count = w.count + 1
                   /\ ~w'.end
                   /\ errors' = errors
              ELSE /\ pc' = "flush"
                   /\ w'.end
                   /\ inv.log_errors =>
                         errors'[DataDir] =
                            Append(errors[DataDir], Endpoint(inv.mode, w.term, w.page))
        /\ (pc = "request"
            /\ (SearchPage("504", "full") \/ SearchPage("exception", "full"))) =>
              /\ pc' = "request"
              /\ w'.count = w.count
              /\ errors' = errors
        /\ (pc \in {"for", "stubs"} /\ pc' = "request") => w'.count = 0
      ]_vars

\* the last answer was ok and the same page is about to be requested again
\* after the cooldown, with one of the retries already counted
C27_AnomalyTakesARetry ==
    /\ pc = "request"
    /\ r = Response("200")
    /\ last_sleep = 60
    /\ w.count = 1
    /\ inv.max_retries = 1
    /\ ~w.end

\* where the crawl stands inside the walk of a partition
WalkPcs == {"request", "stubs", "fetching", "store"}

\* C28: inside the walk of a partition the page number changes only by +1,
\* after the stubs of a page answered ok that carries the "next page" link,
\* and such a page always advances it; a connection error, a 504, a non-ok
\* answer that is retried and the retry of a page without the link leave it
\* as it is; it is set to 1 exactly by the step that ends the walk; and the
\* walk of a partition begins at page 1 unless a resume cursor seeds it.
C28_PageAdvancesByOne ==
    [][ pc' # "killed" =>
          /\ pc \in WalkPcs =>
                \/ w'.page = w.page /\ pc' \in WalkPcs
                \/ /\ w'.page = w.page + 1
                   /\ pc = "stubs"
                   /\ w.i = Len(w.documents_in_page)
                   /\ w.soup.has_next
                   /\ pc' = "request"
                \/ w'.page = 1 /\ w'.end /\ pc' = "flush"
          /\ (pc = "stubs" /\ pc' = "request") =>
                w'.page = IF w.soup.has_next THEN w.page + 1 ELSE w.page
          /\ (pc = "request" /\ pc' = "request") => w'.page = w.page
          /\ (pc \in {"fetching", "store"}) => w'.page = w.page
          /\ (pc = "for" /\ pc' = "request") =>
                w'.page = IF w.resume_params.set
                          THEN ToInt(w.resume_params.page) ELSE 1
      ]_vars

\* the walk of a partition stands at its second page after a connection
\* error and a non-ok answer
C28_SecondPageAfterFaults ==
    /\ pc = "stubs"
    /\ w.page = 2
    /\ first_page[w.ti] = 1
    /\ faults = 0
    /\ inv.max_retries > 0
    /\ exception = "none"

\* the enumeration a checkpoint was written under
CheckpointMode ==
    IF HasParameter(checkpoint.last_search_endpoint, ModeParameter("year"))
    THEN "year" ELSE "category"

\* the (partition, page) the checkpoint on disk holds
CheckpointCursor == ResumeParams(checkpoint, CheckpointMode)

\* every stub of every page of term below page has been skipped or fetched
WorkedBelow(term, page) ==
    \A q \in 1..(page - 1) :
       \A i \in DOMAIN DocumentsInPage[term, q, "full"] :
          <<term, DocumentsInPage[term, q, "full"][i].doc_id>> \in processed

\* C29: the checkpoint never runs ahead of the work done: every write of the
\* checkpoint records the (partition, page) the walker stands at, every stub
\* of every page below the checkpointed page of the checkpointed partition
\* has been skipped or fetched, and so has every stub of every page below
\* the page a walker stands at, a walker resumed from the checkpoint included
C29_CheckpointBehindWork ==
    /\ [](checkpoint.exists =>
             WorkedBelow(CheckpointCursor.term, ToInt(CheckpointCursor.page)))
    /\ [](pc \in WalkPcs => WorkedBelow(w.term, w.page))
    /\ [][checkpoint' # checkpoint =>
             /\ checkpoint'.exists
             /\ checkpoint'.last_search_endpoint = Endpoint(inv.mode, w.term, w.page)
             /\ w' = w]_vars

\* a resumed crawl stands on the second page of the partition of its cursor,
\* with the checkpoint on that page
C29_ResumedOnSecondPage ==
    /\ inv.resume
    /\ seed.set
    /\ pc = "store"
    /\ w.term = seed.term
    /\ w.page = 2
    /\ ToInt(seed.page) = 2
    /\ checkpoint.exists
    /\ ToInt(CheckpointCursor.page) = 2
    /\ CheckpointCursor.term = w.term
    /\ DocumentsInPage[w.term, 1, "full"] # <<>>

(***************************************************************************)
(* Properties of the counters of failed requests.                          *)
(***************************************************************************)
\* the step is a search page answered ok
SearchPageOk == pc = "request" /\ pc' = "stubs"

\* the step is a document request answered ok
DocumentOk == fpc = "loop" /\ call.keep_trying /\ ~call'.keep_trying

\* C30: a search page answered ok sets the failure count of the walker to 0;
\* no request answered ok, of a search page or of a document, changes
\* self.cooldowns; the counter changes only by one more on a failed document
\* request that is the third or a later one of its call, whichever document
\* the call fetches, and by the session reset such a request starts.
C30_SuccessKeepsCooldowns ==
    [][ /\ SearchPageOk => w'.count = 0 /\ cooldowns' = cooldowns
        /\ DocumentOk => cooldowns' = cooldowns /\ call'.count = call.count
        /\ cooldowns' # cooldowns =>
              \/ /\ AttemptFails
                 /\ call'.count > QuickAttempts
                 /\ cooldowns' = cooldowns + 1
              \/ /\ fpc = "reset"
                 /\ cooldowns' = 0
      ]_vars

\* a document is fetched at the first request of its call while the counter
\* holds the escalation of a call for another document, after a search page
\* answered ok
C30_EscalationOutlivesSuccess ==
    /\ pc = "store"
    /\ ~call.page_html.blank
    /\ call.count = 0
    /\ cooldowns = 1
    /\ w.count = 0
    /\ w.i > 0

(***************************************************************************)
(* Properties of the artifacts and the skip filter.                        *)
(***************************************************************************)
\* C31: a body is held by a call only from a request answered ok; an
\* artifact is written only by the pass of a stub whose fetch returned a
\* body that is not empty, with save_html on, and is the artifact of that
\* stub; a fetch that ended on a 404 or ran out of retries returns the empty
\* body and its pass writes nothing; a stub is skipped only when its artifact
\* exists, so a stub without an artifact is fetched whenever the walk comes
\* to it.
C31_SkipFilterSound ==
    [][ /\ call'.page_html # call.page_html /\ ~call'.page_html.blank =>
              /\ fpc = "loop"
              /\ r' = Response("200")
              /\ ~call'.keep_trying
        /\ docsHTML' # docsHTML =>
              /\ pc = "store"
              /\ inv.save_html
              /\ ~call.keep_trying
              /\ ~call.page_html.blank
              /\ call.endpoint = DocEndpoint(Stub.link)
              /\ docsHTML' = docsHTML \cup {<<w.dirterm, Stub.doc_id>>}
        /\ pc = "store" /\ call.keep_trying =>
              /\ call.page_html.blank
              /\ docsHTML' = docsHTML
        /\ pc = "stubs" /\ w.i < Len(w.documents_in_page) /\ pc' # "killed" =>
              IF inv.skip_existing /\ <<w.dirterm, Stub.doc_id>> \in docsHTML
              THEN pc' = "stubs" /\ w'.i = w.i + 1
              ELSE /\ pc' = "fetching"
                   /\ call'.endpoint = DocEndpoint(Stub.link)
      ]_vars

\* with the skip filter and the snapshots on, a document whose fetch ended
\* on a 404 has no artifact and is being fetched again
C31_FetchedAgainAfterNotFound ==
    /\ inv.skip_existing
    /\ inv.save_html
    /\ pc = "fetching"
    /\ fpc = "loop"
    /\ call.endpoint \in SeqRange(not_found["./"])
    /\ <<w.dirterm, Stub.doc_id>> \notin docsHTML
    /\ docsHTML # {}

(***************************************************************************)
(* Properties of the local replay, continued.                              *)
(***************************************************************************)
\* the doc_id keys under which a crawl stored the artifacts of a year
StoredKeys(year) == {a[2] : a \in {b \in docsHTML : b[1] = year}}

\* C32: the record the local replay writes for a year whose artifacts are all
\* archives a crawl stored has exactly the doc_id keys under which the crawl
\* stored them.
C32_KeysAgree ==
    \A i \in DOMAIN LocalYears :
       LET year == LocalYears[i]
       IN  (/\ ExtractedKey(year) \in DOMAIN json_gz
            /\ \A k \in StoredKeys(year) : WellFormed(FileName(k)))
           => DOMAIN json_gz[ExtractedKey(year)] = StoredKeys(year)

\* the record of a year whose one artifact a crawl stored under CELEX-D4 is
\* written with the key D4
C32_PrefixDropped ==
    /\ StoredKeys(LocalYears[2]) = {<<"CELEX", "-", "D4">>}
    /\ ExtractedKey(LocalYears[2]) \in DOMAIN json_gz
    /\ DOMAIN json_gz[ExtractedKey(LocalYears[2])] = {<<"D4">>}

\* C33: the local replay over a list of years does not end on the directory
\* of one year: no run ends on the listing of a directory that is missing or
\* on the summary of a year without an entry, and once the loop over the
\* years is over every year whose directory holds a file has its record,
\* the empty record when none of its files gives an entry.
C33_NoYearAborts ==
    /\ exception \notin {"FileNotFoundError", "ZeroDivisionError"}
    /\ pc = "local_done" =>
          \A i \in DOMAIN LocalYears :
             LET year == LocalYears[i]
             IN  StoredKeys(year) # {} =>
                    /\ ExtractedKey(year) \in DOMAIN json_gz
                    /\ (\A k \in StoredKeys(year) : ~WellFormed(FileName(k)))
                          => json_gz[ExtractedKey(year)] = <<>>

\* the replay has ended on the listing of the first year, whose directory is
\* missing, and the record of the second year, which holds an artifact, is
\* not written
C33_MissingYearEndsReplay ==
    /\ exception = "FileNotFoundError"
    /\ pc = "local_year"
    /\ StoredKeys(LocalYears[1]) = {}
    /\ StoredKeys(LocalYears[2]) # {}
    /\ ExtractedKey(LocalYears[2]) \notin DOMAIN json_gz

(***************************************************************************)
(* Properties of the cookie bootstrap.                                     *)
(***************************************************************************)
\* __set_cookies is running, at the start of an invocation or in a reset
BootstrapRuns == exception = "none" /\ (pc = "cookies" \/ fpc = "reset")

\* C34: whenever the cookie bootstrap runs, self.r is a session that can
\* issue the request, and the bootstrap ends: every bootstrap that runs is
\* followed by a state in which it runs no longer, in a second invocation on
\* the same scraper as in the first.
C34_BootstrapTerminates ==
    /\ [](BootstrapRuns => r.kind = "Session")
    /\ (BootstrapRuns ~> ~BootstrapRuns)

\* the bootstrap of a second invocation on the same scraper has found the
\* Response of the last request in self.r and sleeps before it tries again
C34_BootstrapOnResponse ==
    /\ ninv = 2
    /\ pc = "cookies"
    /\ exception = "none"
    /\ r.kind = "Response"
    /\ last_sleep = 10

====
